---------------------------- MODULE Spec2Model ----------------------------
(***************************************************************************)
(* Order matching engine: the three matching books (FIFO, Pro-Rata,        *)
(* Hybrid) of src/src/algorithms, the process-wide trade rank counter and  *)
(* the f64 arithmetic the proportional allocation is computed in.          *)
(***************************************************************************)
EXTENDS Integers, Sequences, FiniteSets, TLC

(***************************************************************************)
(* Bounds of the model.                                                    *)
(***************************************************************************)
\* Number of submissions one matcher receives (order ids are 1..MaxOrders).
MaxOrders == 4
\* Allocation study: one to three resting orders on the level, of these
\* sizes, and an aggressor of one of these quantities.
LevelLengths == 1..3
LevelSizes == {1, 7, 10, 13, 15, 30}
AggressorQtys == {1, 11, 22, 23}

\* Quantities offered to the matchers.  7, 15 and 22 are the smallest sizes
\* for which (r / T) * Q computed in f64 is not floor(Q * r / T) exactly.
Qtys == {1, 7, 15, 22}
Prices == {1, 2}
Sides == {"Buy", "Sell"}

Min(a, b) == IF a <= b THEN a ELSE b

RECURSIVE SumSeq(_)
SumSeq(s) == IF s = <<>> THEN 0 ELSE Head(s) + SumSeq(Tail(s))

(***************************************************************************)
(* IEEE-754 binary64 arithmetic on the values the matchers compute with.   *)
(* A positive double is sig * 2^exp with 2^52 <= sig < 2^53; sig is kept   *)
(* as five base-2^13 limbs, most significant first (the first limb is 1).  *)
(* Operands are integers below 2^16, which u64-as-f64 converts exactly.    *)
(***************************************************************************)
LimbBase == 8192
LimbBits == 13

RECURSIVE Pow2(_)
Pow2(n) == IF n = 0 THEN 1 ELSE 2 * Pow2(n - 1)

\* Number of bits of a positive integer.
RECURSIVE BitLen(_)
BitLen(n) == IF n = 0 THEN 0 ELSE 1 + BitLen(n \div 2)

\* Quotient limbs of rem/d, most significant first: n limbs and the final
\* remainder of the long division.
RECURSIVE DivLimbs(_, _, _, _)
DivLimbs(rem, d, n, acc) ==
    IF n = 0 THEN [limbs |-> acc, rem |-> rem]
    ELSE DivLimbs((rem * LimbBase) % d, d, n - 1,
                  Append(acc, (rem * LimbBase) \div d))

\* limbs + 1, most significant limb first; the first limb absorbs the carry.
RECURSIVE IncLimbs(_)
IncLimbs(limbs) ==
    LET n == Len(limbs)
    IN  IF n = 1 THEN <<limbs[1] + 1>>
        ELSE IF limbs[n] + 1 < LimbBase
             THEN [limbs EXCEPT ![n] = @ + 1]
             ELSE Append(IncLimbs(SubSeq(limbs, 1, n - 1)), 0)

\* limbs \div 2 with the bit shifted out.
RECURSIVE HalveLimbs(_, _, _)
HalveLimbs(limbs, carry, acc) ==
    IF limbs = <<>> THEN [limbs |-> acc, out |-> carry]
    ELSE LET v == carry * LimbBase + Head(limbs)
         IN  HalveLimbs(Tail(limbs), v % 2, Append(acc, v \div 2))

\* Shift right by s bits keeping the guard bit (last bit out) and the
\* sticky bit (any earlier bit out).
RECURSIVE ShiftRight(_, _, _, _)
ShiftRight(limbs, s, guard, sticky) ==
    IF s = 0 THEN [limbs |-> limbs, guard |-> guard, sticky |-> sticky]
    ELSE LET h == HalveLimbs(limbs, 0, <<>>)
         IN  ShiftRight(h.limbs, s - 1, h.out,
                        IF guard = 1 THEN 1 ELSE sticky)

\* Round to nearest, ties to even, then renormalise a significand that the
\* increment carried to 2^53.
RoundNearestEven(limbs, exp, guard, sticky) ==
    LET odd == limbs[Len(limbs)] % 2 = 1
        up  == guard = 1 /\ (sticky = 1 \/ odd)
        r   == IF up THEN IncLimbs(limbs) ELSE limbs
    IN  IF r[1] = 2
        THEN [zero |-> FALSE, sig |-> <<1, 0, 0, 0, 0>>, exp |-> exp + 1]
        ELSE [zero |-> FALSE, sig |-> r, exp |-> exp]

F64Zero == [zero |-> TRUE, sig |-> <<0, 0, 0, 0, 0>>, exp |-> 0]

\* (n as f64) / (d as f64) for integers n >= 0, d > 0.
F64Div(n, d) ==
    IF n = 0 THEN F64Zero
    ELSE LET k  == BitLen(n) - BitLen(d)
             n1 == IF k < 0 THEN n * Pow2(-k) ELSE n
             d1 == IF k > 0 THEN d * Pow2(k) ELSE d
             \* n1 and d1 have the same bit length: n1/d1 is in (1/2, 2)
             lo == n1 < d1
             n2 == IF lo THEN 2 * n1 ELSE n1
             e  == IF lo THEN k - 1 ELSE k
             q  == DivLimbs(n2 - d1, d1, 4, <<1>>)
             g  == IF 2 * q.rem >= d1 THEN 1 ELSE 0
             st == IF (2 * q.rem) % d1 # 0 THEN 1 ELSE 0
         IN  RoundNearestEven(q.limbs, e - 52, g, st)

\* limbs * m, least significant limb first in the recursion; the first limb
\* of the result holds everything above the lower four limbs.
RECURSIVE MulLimbs(_, _, _, _)
MulLimbs(limbs, m, carry, acc) ==
    LET n == Len(limbs)
    IN  IF n = 1 THEN <<limbs[1] * m + carry>> \o acc
        ELSE LET v == limbs[n] * m + carry
             IN  MulLimbs(SubSeq(limbs, 1, n - 1), m, v \div LimbBase,
                          <<v % LimbBase>> \o acc)

\* x * (m as f64) for a double x and an integer m >= 0.
F64MulInt(x, m) ==
    IF x.zero \/ m = 0 THEN F64Zero
    ELSE LET p == MulLimbs(x.sig, m, 0, <<>>)
             s == BitLen(p[1]) - 1
             r == ShiftRight(p, s, 0, 0)
         IN  RoundNearestEven(r.limbs, x.exp + s, r.guard, r.sticky)

RECURSIVE LimbsToInt(_, _)
LimbsToInt(limbs, acc) ==
    IF limbs = <<>> THEN acc
    ELSE LimbsToInt(Tail(limbs), acc * LimbBase + Head(limbs))

\* x.floor() as u64, for 0 <= x < 2^31.
F64Floor(x) ==
    IF x.zero \/ x.exp < -52 THEN 0
    ELSE LET drop  == -x.exp
             whole == drop \div LimbBits
             kept  == SubSeq(x.sig, 1, Len(x.sig) - whole)
             r     == ShiftRight(kept, drop % LimbBits, 0, 0)
         IN  LimbsToInt(r.limbs, 0)


(***************************************************************************)
(* Orders, trades and the global trade rank.                               *)
(***************************************************************************)
\* engine::Order without its audit timestamp.  A quantity is a u64; after a
\* wrapping subtraction the value 2^64 + k (k < 0) is written as k.
Order(id, side, price, quantity) ==
    [id |-> id, side |-> side, price |-> price, quantity |-> quantity]

\* Order::is_empty
IsEmpty(order) == order.quantity = 0

\* Trade::new with the value fetch_add returned; the caller advances the
\* counter by one.
TradeNew(buy_id, sell_id, price, quantity, rk) ==
    [buy_id |-> buy_id, sell_id |-> sell_id, price |-> price,
     quantity |-> quantity, rank |-> rk]

\* GLOBAL_TRADE_RANK starts at 1.
InitialRank == 1

\* VecDeque::remove(index) and VecDeque::insert(index, x), 1-based here.
RemoveAt(q, i) == SubSeq(q, 1, i - 1) \o SubSeq(q, i + 1, Len(q))
InsertAt(q, i, x) == SubSeq(q, 1, i - 1) \o <<x>> \o SubSeq(q, i, Len(q))

\* What one match_order call leaves: the book, the returned trades, the
\* counter, and how the call ended: "ok" (returned), "InvalidOrder"
\* (FifoMatcher returned Err(AlgorithmError::InvalidOrder)), "invalid"
\* (ProRata or Hybrid returned an empty list for an invalid order),
\* "panic" (overflow check failed, nothing returned) or "wrapped"
\* (returned after a u64 wrapped).
Outcome(bids, asks, trades, rk, result) ==
    [bids |-> bids, asks |-> asks, trades |-> trades, rank |-> rk,
     result |-> result]

(***************************************************************************)
(* FifoMatcher                                                             *)
(***************************************************************************)
\* FifoMatcher::execute_trade: the price is always the sell order's.
execute_trade(buy_order, sell_order, rk) ==
    LET trade_quantity == Min(buy_order.quantity, sell_order.quantity)
        trade_price    == sell_order.price
    IN  [buy   |-> [buy_order EXCEPT !.quantity = @ - trade_quantity],
         sell  |-> [sell_order EXCEPT !.quantity = @ - trade_quantity],
         trade |-> TradeNew(buy_order.id, sell_order.id, trade_price,
                            trade_quantity, rk)]

\* match_buy_order with the crossing test written > instead of >=: an ask
\* at exactly the buy price is not taken.
RECURSIVE fifo_match_buy_order_strict(_, _, _, _)
fifo_match_buy_order_strict(buy_order, asks, trades, rk) ==
    IF ~IsEmpty(buy_order) /\ asks # <<>>
       /\ buy_order.price > Head(asks).price
    THEN LET e == execute_trade(buy_order, Head(asks), rk)
         IN  fifo_match_buy_order_strict(
                 e.buy,
                 IF ~IsEmpty(e.sell) THEN <<e.sell>> \o Tail(asks)
                                     ELSE Tail(asks),
                 Append(trades, e.trade), rk + 1)
    ELSE [incoming |-> buy_order, book |-> asks, trades |-> trades,
          rank |-> rk]

\* FifoMatcher::match_buy_order: the while loop.
RECURSIVE fifo_match_buy_order(_, _, _, _)
fifo_match_buy_order(buy_order, asks, trades, rk) ==
    IF ~IsEmpty(buy_order) /\ asks # <<>>
       /\ buy_order.price >= Head(asks).price
    THEN LET e == execute_trade(buy_order, Head(asks), rk)
         IN  fifo_match_buy_order(
                 e.buy,
                 IF ~IsEmpty(e.sell) THEN <<e.sell>> \o Tail(asks)
                                     ELSE Tail(asks),
                 Append(trades, e.trade), rk + 1)
    ELSE [incoming |-> buy_order, book |-> asks, trades |-> trades,
          rank |-> rk]

\* FifoMatcher::match_sell_order: the while loop.
RECURSIVE fifo_match_sell_order(_, _, _, _)
fifo_match_sell_order(sell_order, bids, trades, rk) ==
    IF ~IsEmpty(sell_order) /\ bids # <<>>
       /\ sell_order.price <= Head(bids).price
    THEN LET e == execute_trade(Head(bids), sell_order, rk)
         IN  fifo_match_sell_order(
                 e.sell,
                 IF ~IsEmpty(e.buy) THEN <<e.buy>> \o Tail(bids)
                                    ELSE Tail(bids),
                 Append(trades, e.trade), rk + 1)
    ELSE [incoming |-> sell_order, book |-> bids, trades |-> trades,
          rank |-> rk]

\* add_bid written with push_front: the newest bid goes to the head.
add_bid_front(bids, order) == <<order>> \o bids

\* FifoMatcher::add_bid and add_ask: push_back.
add_bid(bids, order) == Append(bids, order)
add_ask(asks, order) == Append(asks, order)

\* validate_order without the test of the price.
validate_order_quantity_only(order) == order.quantity # 0

\* FifoMatcher::validate_order: TRUE for Ok(()), FALSE for
\* Err(InvalidOrder).
validate_order(order) == order.quantity # 0 /\ order.price > 0

\* FifoMatcher::match_order
fifo_match_order(incoming, bids, asks, rk) ==
    IF ~validate_order(incoming)
    THEN Outcome(bids, asks, <<>>, rk, "InvalidOrder")
    ELSE IF incoming.side = "Buy"
    THEN LET m == fifo_match_buy_order(incoming, asks, <<>>, rk)
         IN  Outcome(IF ~IsEmpty(m.incoming) THEN add_bid(bids, m.incoming)
                                             ELSE bids,
                     m.book, m.trades, m.rank, "ok")
    ELSE LET m == fifo_match_sell_order(incoming, bids, <<>>, rk)
         IN  Outcome(m.book,
                     IF ~IsEmpty(m.incoming) THEN add_ask(asks, m.incoming)
                                             ELSE asks,
                     m.trades, m.rank, "ok")

(***************************************************************************)
(* ProRataMatcher                                                          *)
(***************************************************************************)
\* The collection loop of match_buy_order / match_sell_order: it walks the
\* queue from the front and breaks at the first order at another price, so
\* matching_orders are the positions 1..level_len of the queue.
RECURSIVE level_len(_, _)
level_len(book, best_price) ==
    IF book = <<>> \/ Head(book).price # best_price THEN 0
    ELSE 1 + level_len(Tail(book), best_price)

\* The resting quantities of matching_orders, in collection order.
matching_orders(book, best_price) ==
    [i \in 1..level_len(book, best_price) |-> book[i].quantity]

\* (proportion * available_quantity as f64).floor() as u64, with
\* proportion = resting_qty as f64 / total_resting_quantity as f64.
floor_allocation(resting_qty, total_resting_quantity, available_quantity) ==
    F64Floor(F64MulInt(F64Div(resting_qty, total_resting_quantity),
                       available_quantity))

\* The remainder loop: one more unit to the allocations at positions
\* 0, 1, ... while remainder > 0 and positions are left.
distribute_remainder(floors, remainder) ==
    [i \in 1..Len(floors) |-> floors[i] + (IF i <= remainder THEN 1 ELSE 0)]

\* Allocation and remainder of one submission: the sizes of the collected
\* orders and the aggressor's quantity give the units taken from each.
allocations(sizes, incoming_quantity) ==
    LET total_resting_quantity == SumSeq(sizes)
        available_quantity == Min(incoming_quantity, total_resting_quantity)
        floors == [i \in 1..Len(sizes) |->
                      floor_allocation(sizes[i], total_resting_quantity,
                                       available_quantity)]
        total_allocated == SumSeq(floors)
        remainder == available_quantity - total_allocated
    IN  [floors    |-> floors,
         remainder |-> remainder,
         allocs    |-> distribute_remainder(floors, remainder)]

\* The execute loop: allocations sorted by index descending, so position i
\* runs from the last collected order down to the first.  checks is the
\* build's overflow-checks setting: a u64 subtraction below zero panics
\* when it is on and wraps when it is off.
RECURSIVE execute_allocations(_, _, _, _, _, _, _, _)
execute_allocations(book, allocs, i, incoming, trades, rk, checks, fault) ==
    IF i = 0
    THEN [book |-> book, incoming |-> incoming, trades |-> trades,
          rank |-> rk, fault |-> fault]
    ELSE IF allocs[i] = 0
    THEN execute_allocations(book, allocs, i - 1, incoming, trades, rk,
                             checks, fault)
    ELSE LET resting == book[i]
             removed == RemoveAt(book, i)
             trade   == IF incoming.side = "Buy"
                        THEN TradeNew(incoming.id, resting.id, resting.price,
                                      allocs[i], rk)
                        ELSE TradeNew(resting.id, incoming.id, resting.price,
                                      allocs[i], rk)
             inc_q   == incoming.quantity - allocs[i]
             rest_q  == resting.quantity - allocs[i]
             below   == inc_q < 0 \/ rest_q < 0
         IN  IF below /\ checks
             THEN [book |-> removed, incoming |-> incoming,
                   trades |-> Append(trades, trade), rank |-> rk + 1,
                   fault |-> "panic"]
             ELSE execute_allocations(
                      IF rest_q # 0
                      THEN InsertAt(removed, i,
                                    [resting EXCEPT !.quantity = rest_q])
                      ELSE removed,
                      allocs, i - 1,
                      [incoming EXCEPT !.quantity = inc_q],
                      Append(trades, trade), rk + 1, checks,
                      IF below THEN "wrapped" ELSE fault)

\* The execute loop on the allocation a of the collected level; an
\* underflow of available_quantity - total_allocated panics or wraps.
execute_level(incoming, book, a, trades, rk, checks) ==
    IF a.remainder < 0 /\ checks
    THEN [book |-> book, incoming |-> incoming, trades |-> trades,
          rank |-> rk, fault |-> "panic"]
    ELSE execute_allocations(
             book,
             IF a.remainder < 0
             THEN distribute_remainder(a.floors, Len(a.floors))
             ELSE a.allocs,
             Len(a.floors), incoming, trades, rk, checks,
             IF a.remainder < 0 THEN "wrapped" ELSE "none")

\* Allocate and execute against the collected level of the given sizes.
allocate_level(incoming, book, level_sizes, trades, rk, checks) ==
    IF SumSeq(level_sizes) = 0
    THEN [book |-> book, incoming |-> incoming, trades |-> trades,
          rank |-> rk, fault |-> "none"]
    ELSE execute_level(incoming, book,
                       allocations(level_sizes, incoming.quantity),
                       trades, rk, checks)

\* Collect the level at target_price, allocate and execute against book.
pro_rata_level(incoming, book, target_price, trades, rk, checks) ==
    allocate_level(incoming, book, matching_orders(book, target_price),
                   trades, rk, checks)

\* How a call that reached the execute loop ended.
ResultOf(fault) == IF fault = "none" THEN "ok" ELSE fault

\* The end of match_buy_order after the execute loop m: the remainder of
\* the aggressor is pushed to the back of bids.
rest_buy(bids, m) ==
    IF m.fault = "panic"
    THEN Outcome(bids, m.book, <<>>, m.rank, "panic")
    ELSE Outcome(IF m.incoming.quantity # 0 THEN Append(bids, m.incoming)
                                            ELSE bids,
                 m.book, m.trades, m.rank, ResultOf(m.fault))

\* The end of match_sell_order after the execute loop m.
rest_sell(asks, m) ==
    IF m.fault = "panic"
    THEN Outcome(m.book, asks, <<>>, m.rank, "panic")
    ELSE Outcome(m.book,
                 IF m.incoming.quantity # 0 THEN Append(asks, m.incoming)
                                            ELSE asks,
                 m.trades, m.rank, ResultOf(m.fault))

\* match_buy_order without the early return for a buy price below the
\* best ask: only an empty ask side makes the order rest untouched.
pro_rata_match_buy_order_no_limit(incoming_buy, bids, asks, rk, checks) ==
    IF asks = <<>>
    THEN Outcome(Append(bids, incoming_buy), asks, <<>>, rk, "ok")
    ELSE rest_buy(bids, pro_rata_level(incoming_buy, asks, Head(asks).price,
                                       <<>>, rk, checks))

\* ProRataMatcher::match_buy_order
pro_rata_match_buy_order(incoming_buy, bids, asks, rk, checks) ==
    IF asks = <<>> \/ incoming_buy.price < Head(asks).price
    THEN Outcome(Append(bids, incoming_buy), asks, <<>>, rk, "ok")
    ELSE rest_buy(bids, pro_rata_level(incoming_buy, asks, Head(asks).price,
                                       <<>>, rk, checks))

\* ProRataMatcher::match_sell_order
pro_rata_match_sell_order(incoming_sell, bids, asks, rk, checks) ==
    IF bids = <<>> \/ incoming_sell.price > Head(bids).price
    THEN Outcome(bids, Append(asks, incoming_sell), <<>>, rk, "ok")
    ELSE rest_sell(asks, pro_rata_level(incoming_sell, bids,
                                        Head(bids).price, <<>>, rk, checks))

\* match_order without the test for a zero quantity or a price <= 0.
pro_rata_match_order_unvalidated(incoming, bids, asks, rk, checks) ==
    IF incoming.side = "Buy"
    THEN pro_rata_match_buy_order(incoming, bids, asks, rk, checks)
    ELSE pro_rata_match_sell_order(incoming, bids, asks, rk, checks)

\* ProRataMatcher::match_order
pro_rata_match_order(incoming, bids, asks, rk, checks) ==
    IF incoming.quantity = 0 \/ incoming.price <= 0
    THEN Outcome(bids, asks, <<>>, rk, "invalid")
    ELSE IF incoming.side = "Buy"
    THEN pro_rata_match_buy_order(incoming, bids, asks, rk, checks)
    ELSE pro_rata_match_sell_order(incoming, bids, asks, rk, checks)

(***************************************************************************)
(* HybridMatcher                                                           *)
(***************************************************************************)
\* HybridConfig.fifo_percentage: the double nearest to num / den.
\* HybridConfig::default is 0.5.
DefaultPct == [num |-> 1, den |-> 2]
HybridPcts == {[num |-> 0, den |-> 2], DefaultPct, [num |-> 2, den |-> 2]}

\* HybridMatcher::apply_fifo_matching_buy
RECURSIVE apply_fifo_matching_buy(_, _, _, _, _)
apply_fifo_matching_buy(incoming_buy, asks, trades, target_price, rk) ==
    IF ~IsEmpty(incoming_buy) /\ asks # <<>>
       /\ Head(asks).price = target_price
    THEN LET ask_order == Head(asks)
             trade_quantity == Min(incoming_buy.quantity, ask_order.quantity)
             left == ask_order.quantity - trade_quantity
         IN  apply_fifo_matching_buy(
                 [incoming_buy EXCEPT !.quantity = @ - trade_quantity],
                 IF left # 0
                 THEN <<[ask_order EXCEPT !.quantity = left]>> \o Tail(asks)
                 ELSE Tail(asks),
                 Append(trades, TradeNew(incoming_buy.id, ask_order.id,
                                         ask_order.price, trade_quantity, rk)),
                 target_price, rk + 1)
    ELSE [incoming |-> incoming_buy, book |-> asks, trades |-> trades,
          rank |-> rk]

\* apply_fifo_matching_sell with the trade priced at the aggressor's limit
\* instead of the resting bid's price.
RECURSIVE apply_fifo_sell_at_limit(_, _, _, _, _)
apply_fifo_sell_at_limit(incoming_sell, bids, trades, target_price, rk) ==
    IF ~IsEmpty(incoming_sell) /\ bids # <<>>
       /\ Head(bids).price = target_price
    THEN LET bid_order == Head(bids)
             trade_quantity == Min(incoming_sell.quantity, bid_order.quantity)
             left == bid_order.quantity - trade_quantity
         IN  apply_fifo_sell_at_limit(
                 [incoming_sell EXCEPT !.quantity = @ - trade_quantity],
                 IF left # 0
                 THEN <<[bid_order EXCEPT !.quantity = left]>> \o Tail(bids)
                 ELSE Tail(bids),
                 Append(trades, TradeNew(bid_order.id, incoming_sell.id,
                                         incoming_sell.price, trade_quantity,
                                         rk)),
                 target_price, rk + 1)
    ELSE [incoming |-> incoming_sell, book |-> bids, trades |-> trades,
          rank |-> rk]

\* HybridMatcher::apply_fifo_matching_sell
RECURSIVE apply_fifo_matching_sell(_, _, _, _, _)
apply_fifo_matching_sell(incoming_sell, bids, trades, target_price, rk) ==
    IF ~IsEmpty(incoming_sell) /\ bids # <<>>
       /\ Head(bids).price = target_price
    THEN LET bid_order == Head(bids)
             trade_quantity == Min(incoming_sell.quantity, bid_order.quantity)
             left == bid_order.quantity - trade_quantity
         IN  apply_fifo_matching_sell(
                 [incoming_sell EXCEPT !.quantity = @ - trade_quantity],
                 IF left # 0
                 THEN <<[bid_order EXCEPT !.quantity = left]>> \o Tail(bids)
                 ELSE Tail(bids),
                 Append(trades, TradeNew(bid_order.id, incoming_sell.id,
                                         bid_order.price, trade_quantity, rk)),
                 target_price, rk + 1)
    ELSE [incoming |-> incoming_sell, book |-> bids, trades |-> trades,
          rank |-> rk]

\* HybridMatcher::apply_pro_rata_matching_buy / _sell: the collection,
\* allocation, remainder and execute loops of the ProRata matcher, on the
\* orders resting at target_price.
apply_pro_rata_matching(incoming, book, trades, target_price, rk, checks) ==
    pro_rata_level(incoming, book, target_price, trades, rk, checks)

\* fifo_quantity rounded up instead of down.
fifo_share_ceil(total_quantity, pct) ==
    (total_quantity * pct.num + pct.den - 1) \div pct.den

\* (total_quantity as f64 * fifo_percentage).floor() as u64
fifo_share(total_quantity, pct) ==
    F64Floor(F64MulInt(F64Div(pct.num, pct.den), total_quantity))

\* The FIFO portion of match_buy_order / match_sell_order: fifo_order is
\* the aggressor with quantity fifo_quantity.
fifo_portion(fifo_order, book, best_price, rk) ==
    IF fifo_order.quantity > 0
    THEN IF fifo_order.side = "Buy"
         THEN apply_fifo_matching_buy(fifo_order, book, <<>>, best_price, rk)
         ELSE apply_fifo_matching_sell(fifo_order, book, <<>>, best_price, rk)
    ELSE [incoming |-> fifo_order, book |-> book, trades |-> <<>>,
          rank |-> rk]

\* The Pro-rata portion, after the FIFO portion f.
pro_rata_portion(pro_rata_order, f, best_price, checks) ==
    IF pro_rata_order.quantity > 0 /\ f.book # <<>>
    THEN apply_pro_rata_matching(pro_rata_order, f.book, f.trades,
                                 best_price, f.rank, checks)
    ELSE [book |-> f.book, incoming |-> pro_rata_order,
          trades |-> f.trades, rank |-> f.rank, fault |-> "none"]

\* The aggressor is reduced by what the FIFO portion traded and not by
\* what the Pro-rata portion traded.
after_portions_fifo_only(incoming, fifo_quantity, f, p) ==
    [book |-> p.book,
     incoming |-> [incoming EXCEPT !.quantity =
                      @ - (fifo_quantity - f.incoming.quantity)],
     trades |-> p.trades, rank |-> p.rank, fault |-> p.fault]

\* What the two portions f and p leave of the aggressor:
\* incoming.quantity -= fifo_quantity - fifo_order.quantity, then
\* incoming.quantity -= pro_rata_quantity - pro_rata_order.quantity.
after_portions(incoming, fifo_quantity, f, p) ==
    [book |-> p.book,
     incoming |-> [incoming EXCEPT !.quantity =
                      (@ - (fifo_quantity - f.incoming.quantity))
                      - ((incoming.quantity - fifo_quantity)
                         - p.incoming.quantity)],
     trades |-> p.trades, rank |-> p.rank, fault |-> p.fault]

pro_rata_then(incoming, fifo_quantity, f, best_price, checks) ==
    after_portions(incoming, fifo_quantity, f,
                   pro_rata_portion(
                       [incoming EXCEPT !.quantity = @ - fifo_quantity],
                       f, best_price, checks))

split_phases(incoming, book, best_price, rk, fifo_quantity, checks) ==
    pro_rata_then(incoming, fifo_quantity,
                  fifo_portion([incoming EXCEPT !.quantity = fifo_quantity],
                               book, best_price, rk),
                  best_price, checks)

\* The two phases of match_buy_order / match_sell_order against the
\* opposite queue: what is left of the aggressor, the queue, the trades.
hybrid_phases(incoming, book, best_price, rk, pct, checks) ==
    split_phases(incoming, book, best_price, rk,
                 fifo_share(incoming.quantity, pct), checks)

\* HybridMatcher::match_buy_order
hybrid_match_buy_order(incoming_buy, bids, asks, rk, pct, checks) ==
    IF asks = <<>> \/ incoming_buy.price < Head(asks).price
    THEN Outcome(Append(bids, incoming_buy), asks, <<>>, rk, "ok")
    ELSE rest_buy(bids, hybrid_phases(incoming_buy, asks, Head(asks).price,
                                      rk, pct, checks))

\* HybridMatcher::match_sell_order
hybrid_match_sell_order(incoming_sell, bids, asks, rk, pct, checks) ==
    IF bids = <<>> \/ incoming_sell.price > Head(bids).price
    THEN Outcome(bids, Append(asks, incoming_sell), <<>>, rk, "ok")
    ELSE rest_sell(asks, hybrid_phases(incoming_sell, bids,
                                       Head(bids).price, rk, pct, checks))

\* match_order without the test for a price <= 0.
hybrid_match_order_quantity_only(incoming, bids, asks, rk, pct, checks) ==
    IF incoming.quantity = 0
    THEN Outcome(bids, asks, <<>>, rk, "invalid")
    ELSE IF pct.num < 0 \/ pct.num > pct.den
    THEN Outcome(bids, asks, <<>>, rk, "invalid")
    ELSE IF incoming.side = "Buy"
    THEN hybrid_match_buy_order(incoming, bids, asks, rk, pct, checks)
    ELSE hybrid_match_sell_order(incoming, bids, asks, rk, pct, checks)

\* match_order that refuses a fifo_percentage below 0 and accepts one
\* above 1.
hybrid_match_order_no_upper(incoming, bids, asks, rk, pct, checks) ==
    IF incoming.quantity = 0 \/ incoming.price <= 0
    THEN Outcome(bids, asks, <<>>, rk, "invalid")
    ELSE IF pct.num < 0
    THEN Outcome(bids, asks, <<>>, rk, "invalid")
    ELSE IF incoming.side = "Buy"
    THEN hybrid_match_buy_order(incoming, bids, asks, rk, pct, checks)
    ELSE hybrid_match_sell_order(incoming, bids, asks, rk, pct, checks)

\* HybridMatcher::match_order
hybrid_match_order(incoming, bids, asks, rk, pct, checks) ==
    IF incoming.quantity = 0 \/ incoming.price <= 0
    THEN Outcome(bids, asks, <<>>, rk, "invalid")
    ELSE IF pct.num < 0 \/ pct.num > pct.den
    THEN Outcome(bids, asks, <<>>, rk, "invalid")
    ELSE IF incoming.side = "Buy"
    THEN hybrid_match_buy_order(incoming, bids, asks, rk, pct, checks)
    ELSE hybrid_match_sell_order(incoming, bids, asks, rk, pct, checks)

(***************************************************************************)
(* The state machine: one matcher, constructed empty, receiving orders     *)
(* whose ids the submitter assigns in increasing order.                    *)
(***************************************************************************)
VARIABLES
    algo,             \* which matcher was constructed
    fifo_percentage,  \* HybridMatcher.config
    bids, asks,       \* the matcher's two queues
    rank,             \* GLOBAL_TRADE_RANK
    nextId,           \* the id the submitter gives the next order
    last,             \* the latest match_order call: its order, the book
                      \* and counter before it, what it returned
    fault,            \* "none", or how the first u64 overflow ended
    sizes, quantity,  \* allocation study: the level and the aggressor
    allocated,        \* allocation study: the units taken from each order
    creators,         \* per thread: where it is inside Trade::new
    created,          \* the trades created, in the order they were returned
    clock,            \* counts the calls and returns of Trade::new
    count_seen,       \* what get_trade_count returned, if it ran last
    num_workers,      \* how many ingress workers were started
    capacity,         \* the capacity the shard queues were made with
    producers,        \* per submitter: events sent, latest response
    ingress,          \* the ingress channel: events sent, not yet received
    workers,          \* per ingress worker: where it is in its loop
    shard_queues,     \* Fabric.shard_queues: symbol -> bounded queue
    shard_wakeups,    \* per symbol: wakeup units sent, not yet received
    shards,           \* per symbol: the shard's loop position and books
    sent,             \* the events sent onto ingress, in channel order
    pushed,           \* per symbol: the events pushed, in push order
    processed,        \* per symbol: the events processed, in order
    dropped,          \* the events the router dropped, with the cause
    wakeups_sent,     \* per symbol: how many wakeup sends completed
    senders_alive,    \* some Sender of the ingress channel exists
    fabric_alive,     \* the Fabric exists: it owns the ingress Receiver
                      \* and the wakeup Senders
    request           \* the latest submission, where it is recorded

rankVars == <<creators, created, clock, count_seen>>

pipeVars == <<num_workers, capacity, producers, ingress, workers,
              shard_queues, shard_wakeups, shards, sent, pushed, processed,
              dropped, wakeups_sent, senders_alive, fabric_alive, request>>

matcherVars == <<algo, fifo_percentage, bids, asks, rank, nextId, last,
                 fault, sizes, quantity, allocated>>

vars == <<algo, fifo_percentage, bids, asks, rank, nextId, last, fault,
          sizes, quantity, allocated, creators, created, clock, count_seen,
          num_workers, capacity, producers, ingress, workers,
          shard_queues, shard_wakeups, shards, sent, pushed, processed,
          dropped, wakeups_sent, senders_alive, fabric_alive, request>>

Algos == {"fifo", "prorata", "hybrid"}

NoOrder == Order(0, "Buy", 0, 0)
NoCall == [order |-> NoOrder, pre_bids |-> <<>>, pre_asks |-> <<>>,
           pre_rank |-> InitialRank, trades |-> <<>>, result |-> "none"]

InitBook ==
    /\ bids = <<>>
    /\ asks = <<>>
    /\ rank = InitialRank
    /\ nextId = 1
    /\ last = NoCall
    /\ fault = "none"

NoStudy ==
    /\ sizes = <<>>
    /\ quantity = 0
    /\ allocated = <<>>

\* Threads that create trades concurrently; none is inside Trade::new.
NumThreads == 3
Threads == 1..NumThreads
Idle == [pc |-> "idle", rank |-> 0, began |-> 0]
NoCount == -1

NoCreators ==
    /\ creators = [t \in Threads |-> Idle]
    /\ created = <<>>
    /\ clock = 0
    /\ count_seen = NoCount

\* No submission to the port is on record.
NoRequest ==
    [producer |-> 0, side |-> "BUY",
     order |-> [symbol |-> "", price |-> 0, qty |-> 0]]

\* No pipeline was built around the matcher: no worker, producer or shard.
NoPipe ==
    /\ num_workers = 0
    /\ capacity = 0
    /\ producers = <<>>
    /\ ingress = <<>>
    /\ workers = <<>>
    /\ shard_queues = <<>>
    /\ shard_wakeups = <<>>
    /\ shards = <<>>
    /\ sent = <<>>
    /\ pushed = <<>>
    /\ processed = <<>>
    /\ dropped = {}
    /\ wakeups_sent = <<>>
    /\ senders_alive = FALSE
    /\ fabric_alive = FALSE
    /\ request = NoRequest

Init ==
    /\ algo \in Algos
    /\ fifo_percentage \in (IF algo = "hybrid" THEN HybridPcts
                                               ELSE {DefaultPct})
    /\ InitBook
    /\ NoStudy
    /\ NoCreators
    /\ NoPipe

\* The effect of a call that ended as out on the matcher and the counter.
Effect(incoming, out) ==
    /\ bids' = out.bids
    /\ asks' = out.asks
    /\ rank' = out.rank
    /\ nextId' = nextId + 1
    /\ last' = [order |-> incoming, pre_bids |-> bids, pre_asks |-> asks,
                pre_rank |-> rank, trades |-> out.trades,
                result |-> out.result]
    /\ fault' = IF out.result \in {"panic", "wrapped"} THEN out.result
                                                       ELSE fault
    /\ UNCHANGED <<algo, fifo_percentage, sizes, quantity, allocated>>
    /\ UNCHANGED pipeVars

Apply(incoming, out) == Effect(incoming, out) /\ UNCHANGED rankVars

\* A call to match_order of the constructed matcher.  An overflowing u64
\* subtraction wraps in a build without overflow checks and panics in one
\* with them; the matcher is followed up to its first overflow.
CanSubmit == fault = "none" /\ nextId <= MaxOrders

SubmitFifo ==
    /\ algo = "fifo"
    /\ CanSubmit
    /\ \E side \in Sides, price \in Prices, qty \in Qtys :
          LET incoming == Order(nextId, side, price, qty)
          IN  Apply(incoming, fifo_match_order(incoming, bids, asks, rank))

\* The ways a ProRata or Hybrid call can end: as the build without
\* overflow checks ends it (out) and, if a u64 wrapped there, also as the
\* build with overflow checks ends it (checked).
Builds(out, checked) ==
    IF out.result = "wrapped" THEN {out, checked} ELSE {out}

pro_rata_outcomes(incoming) ==
    Builds(pro_rata_match_order(incoming, bids, asks, rank, FALSE),
           pro_rata_match_order(incoming, bids, asks, rank, TRUE))

hybrid_outcomes(incoming) ==
    Builds(hybrid_match_order(incoming, bids, asks, rank, fifo_percentage,
                              FALSE),
           hybrid_match_order(incoming, bids, asks, rank, fifo_percentage,
                              TRUE))

SubmitProRata ==
    /\ algo = "prorata"
    /\ CanSubmit
    /\ \E side \in Sides, price \in Prices, qty \in Qtys :
          LET incoming == Order(nextId, side, price, qty)
          IN  \E out \in pro_rata_outcomes(incoming) : Apply(incoming, out)

SubmitHybrid ==
    /\ algo = "hybrid"
    /\ CanSubmit
    /\ \E side \in Sides, price \in Prices, qty \in Qtys :
          LET incoming == Order(nextId, side, price, qty)
          IN  \E out \in hybrid_outcomes(incoming) : Apply(incoming, out)

Next == SubmitFifo \/ SubmitProRata \/ SubmitHybrid

Spec == Init /\ [][Next]_vars

\* One matcher at a time.
InitFifo == Init /\ algo = "fifo"
NextFifo == SubmitFifo
SpecFifo == InitFifo /\ [][NextFifo]_vars

InitProRata == Init /\ algo = "prorata"
NextProRata == SubmitProRata
SpecProRata == InitProRata /\ [][NextProRata]_vars

InitHybrid == Init /\ algo = "hybrid"
NextHybrid == SubmitHybrid
SpecHybrid == InitHybrid /\ [][NextHybrid]_vars

(***************************************************************************)
(* Allocation study: the allocation and remainder loops of ProRataMatcher  *)
(* applied to levels of one to three orders.                               *)
(***************************************************************************)
InitAlloc ==
    /\ algo = "prorata"
    /\ fifo_percentage = DefaultPct
    /\ InitBook
    /\ sizes \in UNION {[1..n -> LevelSizes] : n \in LevelLengths}
    /\ quantity \in AggressorQtys
    /\ allocated = <<>>
    /\ NoCreators
    /\ NoPipe

Allocate ==
    /\ allocated = <<>>
    /\ allocated' = allocations(sizes, quantity).allocs
    /\ UNCHANGED <<algo, fifo_percentage, bids, asks, rank, nextId, last,
                   fault, sizes, quantity>>
    /\ UNCHANGED pipeVars
    /\ UNCHANGED rankVars

NextAlloc == Allocate
SpecAlloc == InitAlloc /\ [][NextAlloc]_vars

(***************************************************************************)
(* The demonstrations of main: a matcher whose asks were pushed directly   *)
(* (three resting sells at one price, in time order) receives one Buy at   *)
(* that price.  The orders are numbered 1..4 here in place of main's ids.  *)
(***************************************************************************)
DemoSizes == {40, 60, 100}
DemoQtys == {50, 100, 250}
DemoPrice == 75

match_outcomes(incoming) ==
    CASE algo = "fifo" -> {fifo_match_order(incoming, bids, asks, rank)}
      [] algo = "prorata" -> pro_rata_outcomes(incoming)
      [] algo = "hybrid" -> hybrid_outcomes(incoming)

InitDemo ==
    /\ algo \in Algos
    /\ fifo_percentage \in (IF algo = "hybrid" THEN HybridPcts
                                               ELSE {DefaultPct})
    /\ sizes \in [1..3 -> DemoSizes]
    /\ quantity \in DemoQtys
    /\ allocated = <<>>
    /\ bids = <<>>
    /\ asks = [i \in 1..3 |-> Order(i, "Sell", DemoPrice, sizes[i])]
    /\ rank = InitialRank
    /\ nextId = 4
    /\ last = NoCall
    /\ fault = "none"
    /\ NoCreators
    /\ NoPipe

SubmitDemo ==
    /\ last = NoCall
    /\ LET incoming == Order(nextId, "Buy", DemoPrice, quantity)
       IN  \E out \in match_outcomes(incoming) : Apply(incoming, out)

NextDemo == SubmitDemo
SpecDemo == InitDemo /\ [][NextDemo]_vars

(***************************************************************************)
(* Trade::new on several threads.  Each thread creates trades one after    *)
(* the other; a creation is the call, the fetch_add on GLOBAL_TRADE_RANK   *)
(* and the return of the trade built with the fetched rank.  The counter   *)
(* is a u64 that wraps after 2^64 trades, far beyond MaxTrades.            *)
(***************************************************************************)
MaxTrades == 4

\* AtomicU64::load in place of fetch_add: the counter is read, not advanced.
load_only(counter) == [returned |-> counter, stored |-> counter]

\* AtomicU64::fetch_add(1, SeqCst): returns the previous value.
fetch_add(counter) == [returned |-> counter, stored |-> counter + 1]

Calls == Len(created) + Cardinality({t \in Threads : creators[t] # Idle})

CallTradeNew(t) ==
    /\ creators[t].pc = "idle"
    /\ Calls < MaxTrades
    /\ clock' = clock + 1
    /\ creators' = [creators EXCEPT ![t] =
                       [pc |-> "called", rank |-> 0, began |-> clock + 1]]
    /\ UNCHANGED <<algo, fifo_percentage, bids, asks, rank, nextId, last,
                   fault, sizes, quantity, allocated, created, count_seen>>
    /\ UNCHANGED pipeVars

FetchAdd(t) ==
    /\ creators[t].pc = "called"
    /\ rank' = fetch_add(rank).stored
    /\ creators' = [creators EXCEPT ![t] =
                       [@ EXCEPT !.pc = "fetched",
                                 !.rank = fetch_add(rank).returned]]
    /\ UNCHANGED <<algo, fifo_percentage, bids, asks, nextId, last, fault,
                   sizes, quantity, allocated, created, clock, count_seen>>
    /\ UNCHANGED pipeVars

ReturnTrade(t) ==
    /\ creators[t].pc = "fetched"
    /\ clock' = clock + 1
    /\ created' = Append(created, [thread |-> t, rank |-> creators[t].rank,
                                   began |-> creators[t].began,
                                   ended |-> clock + 1])
    /\ creators' = [creators EXCEPT ![t] = Idle]
    /\ UNCHANGED <<algo, fifo_percentage, bids, asks, rank, nextId, last,
                   fault, sizes, quantity, allocated, count_seen>>
    /\ UNCHANGED pipeVars

InitRank == Init /\ algo = "fifo"
NextRank ==
    \E t \in Threads : CallTradeNew(t) \/ FetchAdd(t) \/ ReturnTrade(t)
SpecRank == InitRank /\ [][NextRank]_vars

(***************************************************************************)
(* One thread that submits orders to its matcher, resets the global rank   *)
(* and reads the trade count, in any order.  created holds the trades      *)
(* returned since the counter was last reset and clock the calls and       *)
(* returns of Trade::new since then.  A thread that panicked does nothing  *)
(* more.                                                                   *)
(***************************************************************************)
\* reset_trade_rank storing 0 instead of 1.
reset_trade_rank_zero(counter) == 0

\* FifoMatcher::reset_trade_rank: GLOBAL_TRADE_RANK.store(1, SeqCst).
reset_trade_rank(counter) == 1

\* FifoMatcher::get_trade_count: GLOBAL_TRADE_RANK.load(SeqCst) - 1.
get_trade_count(counter) == counter - 1

\* The trades of a returned list as entries of created.
Logged(trades) ==
    [k \in 1..Len(trades) |->
        [thread |-> 1, rank |-> trades[k].rank,
         began |-> clock + 2 * k - 1, ended |-> clock + 2 * k]]

SubmitCounted ==
    /\ CanSubmit
    /\ \E side \in Sides, price \in Prices, qty \in Qtys :
          LET incoming == Order(nextId, side, price, qty)
          IN  \E out \in match_outcomes(incoming) :
                 /\ Effect(incoming, out)
                 /\ created' = created \o Logged(out.trades)
                 /\ clock' = clock + 2 * Len(out.trades)
    /\ count_seen' = NoCount
    /\ UNCHANGED creators

ResetTradeRank ==
    /\ fault = "none"
    /\ rank' = reset_trade_rank(rank)
    /\ created' = <<>>
    /\ clock' = 0
    /\ count_seen' = NoCount
    /\ UNCHANGED <<algo, fifo_percentage, bids, asks, nextId, last, fault,
                   sizes, quantity, allocated, creators>>
    /\ UNCHANGED pipeVars

GetTradeCount ==
    /\ fault = "none"
    /\ count_seen' = get_trade_count(rank)
    /\ UNCHANGED <<algo, fifo_percentage, bids, asks, rank, nextId, last,
                   fault, sizes, quantity, allocated, creators, created,
                   clock>>
    /\ UNCHANGED pipeVars

InitCount == Init
NextCount == SubmitCounted \/ ResetTradeRank \/ GetTradeCount
SpecCount == InitCount /\ [][NextCount]_vars

(***************************************************************************)
(* Submissions of any kind: the valid orders of Spec and orders with a     *)
(* zero quantity or a price <= 0, which FifoMatcher answers with           *)
(* Err(InvalidOrder) and the other two with an empty list.                 *)
(***************************************************************************)
BadPrices == {0, -1}

InvalidOrders(id) ==
    {Order(id, side, price, qty) :
        side \in Sides, price \in BadPrices, qty \in {0, 7}}
    \cup {Order(id, side, price, 0) : side \in Sides, price \in Prices}

SubmitInvalid ==
    /\ CanSubmit
    /\ \E incoming \in InvalidOrders(nextId) :
          \E out \in match_outcomes(incoming) : Apply(incoming, out)

NextAny == SubmitFifo \/ SubmitProRata \/ SubmitHybrid \/ SubmitInvalid
SpecAny == Init /\ [][NextAny]_vars

(***************************************************************************)
(* Reading the latest call.                                                *)
(***************************************************************************)
\* match_order returned a trade list for a valid order.
Returned == last.result \in {"ok", "wrapped"}

IsBuy == last.order.side = "Buy"

\* The side the aggressor matched against, before and after the call.
PreOpposite == IF IsBuy THEN last.pre_asks ELSE last.pre_bids
PostOpposite == IF IsBuy THEN asks ELSE bids
\* The aggressor's own side, before and after the call.
PreOwn == IF IsBuy THEN last.pre_bids ELSE last.pre_asks
PostOwn == IF IsBuy THEN bids ELSE asks

\* The resting order a trade of the latest call is against.
MakerId(t) == IF IsBuy THEN t.sell_id ELSE t.buy_id

TradeQtys == [k \in 1..Len(last.trades) |-> last.trades[k].quantity]

\* A u64 that wrapped below zero stands for 2^64 + quantity.
Wrapped(book) == \E i \in 1..Len(book) : book[i].quantity < 0

TotalQty(book) == SumSeq([i \in 1..Len(book) |-> book[i].quantity])

\* Units traded against the resting order id in trades 1..n of the call.
TradedAgainst(id, n) ==
    SumSeq([k \in 1..n |-> IF MakerId(last.trades[k]) = id
                           THEN last.trades[k].quantity ELSE 0])

(***************************************************************************)
(* C1: every trade FifoMatcher returns is priced at the price of the       *)
(* resting order it executed against, for a Buy and for a Sell aggressor.  *)
(***************************************************************************)
C1_TradePriceIsRestingPrice ==
    (algo = "fifo" /\ Returned) =>
        \A k \in 1..Len(last.trades) :
            \E i \in 1..Len(PreOpposite) :
                /\ PreOpposite[i].id = MakerId(last.trades[k])
                /\ last.trades[k].price = PreOpposite[i].price

(***************************************************************************)
(* C2: after match_order has returned, if both sides are non-empty then    *)
(* best_bid().price < best_ask().price, in each of the three matchers.     *)
(***************************************************************************)
C2_NonCrossingRest ==
    (Returned /\ bids # <<>> /\ asks # <<>>) =>
        Head(bids).price < Head(asks).price

(***************************************************************************)
(* C3: the front of asks has the minimum price of all resting asks and     *)
(* the front of bids the maximum price of all resting bids.                *)
(***************************************************************************)
C3_HeadsBestPriced ==
    /\ \A i \in 1..Len(asks) : Head(asks).price <= asks[i].price
    /\ \A i \in 1..Len(bids) : Head(bids).price >= bids[i].price

(***************************************************************************)
(* C4: the quantities of the trades a call returns sum to at most the      *)
(* incoming quantity and to exactly the decrease of the total resting      *)
(* quantity on the opposite side.                                          *)
(***************************************************************************)
C4_Conservation ==
    Returned =>
        /\ SumSeq(TradeQtys) <= last.order.quantity
        /\ ~Wrapped(PostOpposite)
        /\ SumSeq(TradeQtys) = TotalQty(PreOpposite) - TotalQty(PostOpposite)

(***************************************************************************)
(* C5: FIFO time priority.  Of two orders resting on the same side at the  *)
(* same price, no unit of the later-inserted one is traded while the       *)
(* earlier-inserted one has quantity left: when a trade is against the     *)
(* later one, the earlier one has been consumed in full and is gone.       *)
(***************************************************************************)
C5_FifoTimePriority ==
    (algo = "fifo" /\ Returned) =>
        \A i, j \in 1..Len(PreOpposite) :
            (/\ PreOpposite[i].id < PreOpposite[j].id
             /\ PreOpposite[i].price = PreOpposite[j].price) =>
                \A k \in 1..Len(last.trades) :
                    MakerId(last.trades[k]) = PreOpposite[j].id =>
                        /\ TradedAgainst(PreOpposite[i].id, k - 1)
                               = PreOpposite[i].quantity
                        /\ \A m \in 1..Len(PostOpposite) :
                               PostOpposite[m].id # PreOpposite[i].id

\* A call that traded against the later of two orders at one price.
C5_Witness ==
    /\ algo = "fifo"
    /\ Returned
    /\ \E i, j \in 1..Len(PreOpposite) :
           /\ PreOpposite[i].id < PreOpposite[j].id
           /\ PreOpposite[i].price = PreOpposite[j].price
           /\ \E k \in 1..Len(last.trades) :
                  MakerId(last.trades[k]) = PreOpposite[j].id

(***************************************************************************)
(* C6: what FifoMatcher.match_order does.  Trade k is against the k-th     *)
(* order of the opposite queue, which crosses, for min(remaining           *)
(* aggressor, remaining head) units; a head that reached zero is removed,  *)
(* the last head otherwise stays in front with its quantity reduced; the   *)
(* walk ends only when the aggressor is used up or the head does not cross.*)
(***************************************************************************)
Crosses(o) == IF IsBuy THEN o.price <= last.order.price
                       ELSE o.price >= last.order.price

\* The aggressor's quantity before trade k of the call.
RemainingBefore(k) ==
    last.order.quantity
        - SumSeq([m \in 1..(k - 1) |-> last.trades[m].quantity])

\* The opposite queue after n trades down its head.
QueueAfter(n) ==
    LET rest == SubSeq(PreOpposite, n + 1, Len(PreOpposite))
    IN  IF n > 0 /\ last.trades[n].quantity < PreOpposite[n].quantity
        THEN <<[PreOpposite[n] EXCEPT
                   !.quantity = @ - last.trades[n].quantity]>> \o rest
        ELSE rest

C6_FifoMatchResult ==
    (algo = "fifo" /\ Returned) =>
        LET n == Len(last.trades)
        IN  /\ n <= Len(PreOpposite)
            /\ \A k \in 1..n :
                   /\ MakerId(last.trades[k]) = PreOpposite[k].id
                   /\ Crosses(PreOpposite[k])
                   /\ RemainingBefore(k) > 0
                   /\ last.trades[k].quantity
                          = Min(RemainingBefore(k), PreOpposite[k].quantity)
            /\ PostOpposite = QueueAfter(n)
            /\ \/ RemainingBefore(n + 1) = 0
               \/ PostOpposite = <<>>
               \/ ~Crosses(Head(PostOpposite))

\* Three trades down the queue, the third a partial fill of its head.
C6_Witness ==
    /\ algo = "fifo"
    /\ Returned
    /\ Len(last.trades) = 3
    /\ last.trades[3].quantity < PreOpposite[3].quantity
    /\ PostOpposite # <<>>
    /\ PostOpposite[1].id = PreOpposite[3].id

(***************************************************************************)
(* C7: ProRata allocation.  With eligible sizes r_i of total T and         *)
(* Q = min(aggressor quantity, T), the units a_i taken from each order     *)
(* satisfy floor(Q*r_i/T) <= a_i <= floor(Q*r_i/T) + 1 and a_i <= r_i,     *)
(* and they sum to exactly Q.                                              *)
(***************************************************************************)
LevelTotal == SumSeq(sizes)
MatchQty == Min(quantity, LevelTotal)
\* floor(Q * r_i / T) in exact arithmetic.
ExactFloor(i) == (MatchQty * sizes[i]) \div LevelTotal

C7_ProportionalAllocation ==
    allocated # <<>> =>
        /\ \A i \in 1..Len(sizes) :
               /\ ExactFloor(i) <= allocated[i]
               /\ allocated[i] <= ExactFloor(i) + 1
               /\ allocated[i] <= sizes[i]
        /\ SumSeq(allocated) = MatchQty

(***************************************************************************)
(* C8: the remainder goes to time priority.  When the floor allocations    *)
(* sum to Q - k with k > 0, the first k orders of the level receive one    *)
(* unit more than their floor allocation and no other order does.          *)
(***************************************************************************)
ExactRemainder ==
    MatchQty - SumSeq([i \in 1..Len(sizes) |-> ExactFloor(i)])

C8_RemainderToTimePriority ==
    (allocated # <<>> /\ ExactRemainder > 0) =>
        \A i \in 1..Len(sizes) :
            allocated[i] = ExactFloor(i)
                             + (IF i <= ExactRemainder THEN 1 ELSE 0)

(***************************************************************************)
(* C9: ProRataMatcher returns its trades in collection order: a trade      *)
(* earlier in the list is against an earlier-arrived resting order.        *)
(***************************************************************************)
\* Position in the opposite queue of the order a trade is against.
MakerPos(t) ==
    CHOOSE i \in 1..Len(PreOpposite) : PreOpposite[i].id = MakerId(t)

C9_TradesInCollectionOrder ==
    (algo = "prorata" /\ Returned) =>
        \A k1, k2 \in 1..Len(last.trades) :
            k1 < k2 => MakerPos(last.trades[k1]) < MakerPos(last.trades[k2])

(***************************************************************************)
(* C10: ProRata eligibility.  A crossing submission is allocated against   *)
(* every resting order whose price equals the best opposite price, also    *)
(* when another price separates them in the queue: it trades               *)
(* min(aggressor quantity, T) units, T the total quantity of them all.     *)
(***************************************************************************)
\* Total quantity resting at the price of the opposite head.
BestLevelTotal ==
    SumSeq([i \in 1..Len(PreOpposite) |->
               IF PreOpposite[i].price = Head(PreOpposite).price
               THEN PreOpposite[i].quantity ELSE 0])

C10_EligibilityWholeLevel ==
    (/\ algo = "prorata"
     /\ Returned
     /\ PreOpposite # <<>>
     /\ Crosses(Head(PreOpposite))) =>
        SumSeq(TradeQtys) = Min(last.order.quantity, BestLevelTotal)

(***************************************************************************)
(* C11: no price-level spill.  A ProRataMatcher call trades only against   *)
(* resting orders at the price of the opposite head at the start of the    *)
(* call; orders at another price are left as they were; an aggressor       *)
(* larger than the total T resting at that price trades exactly T and      *)
(* rests the overflow at the tail of its own side.                         *)
(***************************************************************************)
\* The resting order of the opposite side, before the call, with this id.
MakerOf(t) == PreOpposite[MakerPos(t)]

\* The orders of a queue that are not at the given price, in queue order.
OffLevel(book, price) == SelectSeq(book, LAMBDA o : o.price # price)

C11_NoPriceLevelSpill ==
    (algo = "prorata" /\ Returned /\ PreOpposite # <<>>) =>
        /\ \A k \in 1..Len(last.trades) :
               MakerOf(last.trades[k]).price = Head(PreOpposite).price
        /\ OffLevel(PostOpposite, Head(PreOpposite).price)
               = OffLevel(PreOpposite, Head(PreOpposite).price)
        /\ (/\ Crosses(Head(PreOpposite))
            /\ last.order.quantity > BestLevelTotal) =>
               /\ SumSeq(TradeQtys) = BestLevelTotal
               /\ PostOwn = Append(PreOwn,
                      [last.order EXCEPT !.quantity = @ - BestLevelTotal])

(***************************************************************************)
(* C12: in ProRataMatcher and HybridMatcher, for a Buy and for a Sell      *)
(* aggressor, every trade is priced at the price of the resting order it   *)
(* is against; in HybridMatcher all trades of one call carry the price of  *)
(* the opposite head read before the first fill.                           *)
(***************************************************************************)
C12_MakerPriceProRataHybrid ==
    (algo \in {"prorata", "hybrid"} /\ Returned) =>
        \A k \in 1..Len(last.trades) :
            /\ last.trades[k].price = MakerOf(last.trades[k]).price
            /\ algo = "hybrid" =>
                   last.trades[k].price = Head(PreOpposite).price

\* A Hybrid Sell with a limit below the bids it hit, in several trades.
C12_Witness ==
    /\ algo = "hybrid"
    /\ Returned
    /\ ~IsBuy
    /\ Len(last.trades) >= 2
    /\ last.order.price < Head(PreOpposite).price

(***************************************************************************)
(* C13: Hybrid phase split.  For a crossing submission of q_total units    *)
(* with fifo fraction f in [0, 1], the FIFO phase consumes at most         *)
(* floor(q_total * f) units of the aggressor, the ProRata phase at most    *)
(* q_total - floor(q_total * f), the total traded is at most q_total, and  *)
(* the FIFO-phase trades come first in the returned list.                  *)
(***************************************************************************)
\* floor(q_total * f) in exact arithmetic.
ExactFifoShare ==
    (last.order.quantity * fifo_percentage.num) \div fifo_percentage.den

\* The FIFO phase of the latest Hybrid call, on the book it started from.
FifoPhase ==
    fifo_portion([last.order EXCEPT !.quantity =
                     fifo_share(last.order.quantity, fifo_percentage)],
                 PreOpposite, Head(PreOpposite).price, last.pre_rank)

FifoPhaseCount == Len(FifoPhase.trades)

\* Units traded in trades from..to of the latest call.
TradedIn(from, to) ==
    SumSeq([k \in 1..(to - from + 1) |-> last.trades[from + k - 1].quantity])

HybridCrossed ==
    /\ algo = "hybrid"
    /\ Returned
    /\ PreOpposite # <<>>
    /\ Crosses(Head(PreOpposite))

OnePrice ==
    \A i \in 1..Len(PreOpposite) :
        PreOpposite[i].price = Head(PreOpposite).price

\* Units resting ahead of position i before the call.
AheadOf(i) == SumSeq([j \in 1..(i - 1) |-> PreOpposite[j].quantity])

\* What the FIFO walk of ExactFifoShare units takes from position i.
FifoTake(i) ==
    IF ExactFifoShare <= AheadOf(i) THEN 0
    ELSE Min(PreOpposite[i].quantity, ExactFifoShare - AheadOf(i))

Residual(i) == PreOpposite[i].quantity - FifoTake(i)

ResidualTotal == SumSeq([i \in 1..Len(PreOpposite) |-> Residual(i)])

ProRataQty == Min(last.order.quantity - ExactFifoShare, ResidualTotal)

ResidualFloor(i) ==
    IF ResidualTotal = 0 THEN 0
    ELSE (ProRataQty * Residual(i)) \div ResidualTotal

ResidualRemainder ==
    ProRataQty - SumSeq([i \in 1..Len(PreOpposite) |-> ResidualFloor(i)])

\* Position of order i among the orders the FIFO walk left on the level.
ResidualPos(i) == Cardinality({j \in 1..i : Residual(j) > 0})

ProRataTake(i) ==
    IF Residual(i) = 0 THEN 0
    ELSE ResidualFloor(i)
             + (IF ResidualPos(i) <= ResidualRemainder THEN 1 ELSE 0)

C14_HybridPerOrderConsumption ==
    (HybridCrossed /\ OnePrice) =>
        \A i \in 1..Len(PreOpposite) :
            TradedAgainst(PreOpposite[i].id, Len(last.trades))
                = FifoTake(i) + ProRataTake(i)

(***************************************************************************)
(* C15: the comparison table main prints.  For 100 incoming units against  *)
(* resting orders of 40, 60 and 100 units at one price, HybridMatcher      *)
(* with the default configuration fills them 50, 25 and 25 units.          *)
(***************************************************************************)
TableScenario ==
    /\ sizes = <<40, 60, 100>>
    /\ quantity = 100
    /\ Returned

C15_HybridTableRow ==
    (TableScenario /\ algo = "hybrid" /\ fifo_percentage = DefaultPct) =>
        /\ TradedAgainst(1, Len(last.trades)) = 50
        /\ TradedAgainst(2, Len(last.trades)) = 25
        /\ TradedAgainst(3, Len(last.trades)) = 25

(***************************************************************************)
(* C16: global rank ordering.  Without reset_trade_rank, also with         *)
(* several threads creating trades through the shared counter, no two      *)
(* trades have the same rank, and of two trades the first of which was     *)
(* created before the creation of the second began (successive trades of   *)
(* one thread in particular) the first has the strictly smaller rank.      *)
(***************************************************************************)
C16_GlobalRankOrdering ==
    \A i, j \in 1..Len(created) :
        /\ i # j => created[i].rank # created[j].rank
        /\ created[i].ended < created[j].began =>
               created[i].rank < created[j].rank
        /\ (i < j /\ created[i].thread = created[j].thread) =>
               created[i].rank < created[j].rank

\* Two creations that overlapped, the one called later fetching first, and
\* a third trade created after both had returned.
C16_Witness ==
    \E i, j, k \in 1..Len(created) :
        /\ created[i].thread # created[j].thread
        /\ created[i].began < created[j].began
        /\ created[j].rank < created[i].rank
        /\ created[i].ended < created[k].began
        /\ created[j].ended < created[k].began

(***************************************************************************)
(* C17: rank sequencing after reset.  With one thread at work, after       *)
(* reset_trade_rank get_trade_count returns 0, the k-th trade created      *)
(* afterwards has rank k and get_trade_count then returns k; a submission  *)
(* that produces no trade does not advance the counter.                    *)
(***************************************************************************)
C17_RankSequencingAfterReset ==
    fault # "panic" =>
        /\ \A k \in 1..Len(created) : created[k].rank = k
        /\ count_seen # NoCount => count_seen = Len(created)
        /\ rank = Len(created) + 1

\* After a reset that followed an earlier trade: one trade, a submission
\* that rested, and get_trade_count returning 1.  An order of 22 units
\* with 20 left has been traded against twice.
C17_Witness ==
    /\ Len(created) = 1
    /\ last.result = "ok"
    /\ last.trades = <<>>
    /\ count_seen = 1
    /\ \E i \in 1..Len(bids) : bids[i].quantity = 20

(***************************************************************************)
(* C18: post-state of match_order, all three matchers.  After a valid      *)
(* submission returns, the aggressor rests on its own side if and only if  *)
(* its quantity less the sum of its trades is above zero, and then as the  *)
(* tail of its side with exactly that quantity; a resting order filled to  *)
(* zero (no unit of it is left) is removed and one filled in part is       *)
(* reduced by exactly the units traded against it.                         *)
(***************************************************************************)
Remaining == last.order.quantity - SumSeq(TradeQtys)

\* Units traded against the resting order id in the whole call.
Filled(id) == TradedAgainst(id, Len(last.trades))

Resting(book, id) == \E j \in 1..Len(book) : book[j].id = id

C18_PostState ==
    Returned =>
        /\ PostOwn = IF Remaining > 0
                     THEN Append(PreOwn,
                                 [last.order EXCEPT !.quantity = Remaining])
                     ELSE PreOwn
        /\ \A i \in 1..Len(PreOpposite) :
               LET o == PreOpposite[i]
               IN  /\ Filled(o.id) >= o.quantity =>
                          ~Resting(PostOpposite, o.id)
                   /\ Filled(o.id) < o.quantity =>
                          \E j \in 1..Len(PostOpposite) :
                              PostOpposite[j] =
                                  [o EXCEPT !.quantity = @ - Filled(o.id)]
        /\ \A j \in 1..Len(PostOpposite) :
               Resting(PreOpposite, PostOpposite[j].id)

(***************************************************************************)
(* C19: a non-crossing submission is a pure append.  In every matcher, if  *)
(* the opposite side is empty or the aggressor's price does not cross the  *)
(* opposite head, match_order returns no trades, leaves the opposite       *)
(* side, the orders of its own side and the rank counter as they were,     *)
(* and appends the incoming order with its full quantity to the tail of    *)
(* its own side.                                                           *)
(***************************************************************************)
NonCrossing == PreOpposite = <<>> \/ ~Crosses(Head(PreOpposite))

C19_NonCrossingAppend ==
    (Returned /\ NonCrossing) =>
        /\ last.trades = <<>>
        /\ PostOpposite = PreOpposite
        /\ PostOwn = Append(PreOwn, last.order)
        /\ rank = last.pre_rank

\* A Buy below the resting ask that is the opposite head, with a bid
\* already resting on its own side.
C19_Witness ==
    /\ Returned
    /\ IsBuy
    /\ PreOpposite # <<>>
    /\ ~Crosses(Head(PreOpposite))
    /\ PreOwn # <<>>

(***************************************************************************)
(* C20: positive quantities.  In every reachable state of every matcher,   *)
(* after any sequence of valid and invalid match_order calls, every order  *)
(* resting in bids or asks has quantity > 0 and every trade returned has   *)
(* quantity > 0.  Quantities are u64: a model value below zero stands for  *)
(* 2^64 plus that value, which is above zero.                              *)
(***************************************************************************)
PositiveU64(q) == q # 0

C20_PositiveQuantities ==
    /\ \A i \in 1..Len(bids) : PositiveU64(bids[i].quantity)
    /\ \A i \in 1..Len(asks) : PositiveU64(asks[i].quantity)
    /\ \A k \in 1..Len(last.trades) : PositiveU64(last.trades[k].quantity)

\* A zero-quantity order was submitted to a book with resting orders on
\* both sides after a call that traded.
C20_Witness ==
    /\ last.result = "invalid"
    /\ last.order.quantity = 0
    /\ last.order.price > 0
    /\ bids # <<>>
    /\ asks # <<>>
    /\ rank > InitialRank

(***************************************************************************)
(* C21: FifoMatcher.match_order on an order with quantity = 0 or           *)
(* price <= 0 returns Err(AlgorithmError::InvalidOrder) and has no effect: *)
(* bids, asks and the global trade rank are as before the call, no trade   *)
(* is returned and the order rests on neither side.                        *)
(***************************************************************************)
InvalidInput == last.order.quantity = 0 \/ last.order.price <= 0

Called == last.result # "none"

NoEffect ==
    /\ bids = last.pre_bids
    /\ asks = last.pre_asks
    /\ rank = last.pre_rank
    /\ last.trades = <<>>
    /\ ~Resting(bids, last.order.id)
    /\ ~Resting(asks, last.order.id)

C21_FifoInvalidOrder ==
    (algo = "fifo" /\ Called /\ InvalidInput) =>
        /\ last.result = "InvalidOrder"
        /\ NoEffect

\* FifoMatcher refused an order of 7 units at a price <= 0 while orders
\* rested on both sides and trades had been made.
C21_Witness ==
    /\ algo = "fifo"
    /\ last.result = "InvalidOrder"
    /\ last.order.quantity = 7
    /\ last.order.price <= 0
    /\ bids # <<>>
    /\ asks # <<>>
    /\ rank > InitialRank

(***************************************************************************)
(* C22: ProRataMatcher.match_order and HybridMatcher.match_order on an     *)
(* order with quantity = 0 or price <= 0 return an empty trade list and    *)
(* leave bids, asks and the global rank as they were, in any reachable     *)
(* book state: the order is neither matched nor rested.                    *)
(***************************************************************************)
C22_ProRataHybridInvalidOrder ==
    (algo \in {"prorata", "hybrid"} /\ Called /\ InvalidInput) =>
        /\ last.result = "invalid"
        /\ NoEffect

\* HybridMatcher answered a sell of 7 units at a price <= 0 that bids
\* resting in the book would otherwise have matched.
C22_Witness ==
    /\ algo = "hybrid"
    /\ last.result = "invalid"
    /\ last.order.side = "Sell"
    /\ last.order.quantity = 7
    /\ last.order.price <= 0
    /\ bids # <<>>
    /\ rank > InitialRank

(***************************************************************************)
(* C23: no panic in steady state.  For every sequence of valid             *)
(* submissions to any of the three matchers, match_order never subtracts   *)
(* more than is available from an unsigned quantity (the aggressor's       *)
(* quantity, a resting quantity, or available_quantity - total_allocated)  *)
(* and never fails an unwrap, expect or index-based remove or insert.      *)
(***************************************************************************)
C23_NoPanic ==
    /\ fault = "none"
    /\ last.result \notin {"panic", "wrapped"}

(***************************************************************************)
(* The ingress pipeline: submitters send events onto the ingress channel,  *)
(* ingress workers route them to the bounded queue of the symbol's shard   *)
(* and wake the shard, the shard drains its queue into its order books.    *)
(* In SpecPipe the channels stay open; SpecShut adds the shutdown.          *)
(***************************************************************************)
NumProducers == 2
NumWorkers == 2
MaxEvents == 3
QueueCapacity == 2

Producers == 1..NumProducers
Workers == 1..NumWorkers

\* api::is_valid_symbol
ValidSymbols == {"Pranesh", "Superman", "Arnimzola"}

\* is_valid_symbol that accepts every symbol.
any_symbol(symbol) == TRUE

is_valid_symbol(symbol) == symbol \in ValidSymbols

\* The symbols given a shard, a queue and a wakeup channel: an event for
\* the third symbol passes the submission port and finds no queue.
ShardSymbols == {"Pranesh", "Superman"}

\* The submissions tried: OrderIn bodies posted to /buy or /sell.
OtherSymbol == "Other"
PipeSides == {"BUY", "SELL"}
OrdersIn ==
    [symbol : ValidSymbols \cup {OtherSymbol}, price : {0, 1},
     qty : {0, 5}]

\* Event::new_order.  tag is not a field of Event: it names the submitter
\* and counts its events, to tell apart events with equal fields.
new_order(side, price, qty, symbol, tag) ==
    [side |-> side, price |-> price, qty |-> qty, symbol |-> symbol,
     tag |-> tag]

NoEvent == new_order("BUY", 0, 0, "", [producer |-> 0, seq |-> 0])

\* types::Order::new
ShardOrder(price, qty, side) == [price |-> price, qty |-> qty, side |-> side]

\* Ord for types::Order, self <= other: by price for a BUY, reversed for a
\* SELL.
order_le(self, other) ==
    IF self.side = "BUY" THEN self.price <= other.price
                         ELSE other.price <= self.price

\* BinaryHeap::push: the item goes to the end of the array and moves up
\* while it is greater than its parent (positions from 1 here).
RECURSIVE sift_up(_, _)
sift_up(data, pos) ==
    IF pos = 1 \/ order_le(data[pos], data[pos \div 2]) THEN data
    ELSE sift_up([data EXCEPT ![pos] = data[pos \div 2],
                              ![pos \div 2] = data[pos]], pos \div 2)

heap_push(heap, item) == sift_up(Append(heap, item), Len(heap) + 1)

\* recv that returns the newest event on the channel.
recv_newest(channel) ==
    [event |-> channel[Len(channel)],
     channel |-> SubSeq(channel, 1, Len(channel) - 1)]

\* recv that leaves the event it returns on the channel.
recv_peek(channel) == [event |-> Head(channel), channel |-> channel]

\* send that puts the event in front of the events already waiting.
send_front(channel, event) == <<event>> \o channel

\* Sender::send on the ingress channel and Receiver::recv on a channel
\* that holds an event.
send(channel, event) == Append(channel, event)
recv(channel) == [event |-> Head(channel), channel |-> Tail(channel)]

\* push that makes room on a full queue by discarding the oldest event.
force_push(queue, event) ==
    IF Len(queue) < capacity
    THEN [ok |-> TRUE, queue |-> Append(queue, event)]
    ELSE [ok |-> TRUE, queue |-> Append(Tail(queue), event)]

\* ArrayQueue::push fails on a full queue, one that holds as many events
\* as the capacity it was made with, and leaves it as it was.
push(queue, event) ==
    IF Len(queue) < capacity
    THEN [ok |-> TRUE, queue |-> Append(queue, event)]
    ELSE [ok |-> FALSE, queue |-> queue]

\* pop that takes the newest element.
pop_back(queue) ==
    [event |-> queue[Len(queue)], queue |-> SubSeq(queue, 1, Len(queue) - 1)]

\* ArrayQueue::pop on a queue that holds an element: the oldest one.
pop(queue) == [event |-> Head(queue), queue |-> Tail(queue)]

\* Shard::new
NewShard == [pc |-> "wait", buy_orderbook |-> <<>>, sell_orderbook |-> <<>>]

\* Shard::process_event
process_event(shard, event) ==
    LET order == ShardOrder(event.price, event.qty, event.side)
    IN  IF event.side = "BUY"
        THEN [shard EXCEPT !.buy_orderbook = heap_push(@, order)]
        ELSE [shard EXCEPT !.sell_orderbook = heap_push(@, order)]

\* Shard::get_stats
get_stats(shard) == <<Len(shard.buy_orderbook), Len(shard.sell_orderbook)>>

NoEntry == ""

\* An ingress worker blocked in recv, holding no event.
AtRecv == [pc |-> "recv", event |-> NoEvent]

\* Fabric::new and Shard::new for the symbols given shards, with queues
\* of capacity 1 to QueueCapacity and one of counts ingress workers
\* started on the fabric.
StartPipe(counts) ==
    /\ algo = "fifo"
    /\ fifo_percentage = DefaultPct
    /\ InitBook
    /\ NoStudy
    /\ NoCreators
    /\ num_workers \in counts
    /\ capacity \in 1..QueueCapacity
    /\ producers = [p \in Producers |-> [seq |-> 0, status |-> "none"]]
    /\ ingress = <<>>
    /\ workers = [w \in Workers |-> AtRecv]
    /\ shard_queues = [s \in ShardSymbols |-> <<>>]
    /\ shard_wakeups = [s \in ShardSymbols |-> 0]
    /\ shards = [s \in ShardSymbols |-> NewShard]
    /\ pushed = [s \in ShardSymbols |-> <<>>]
    /\ processed = [s \in ShardSymbols |-> <<>>]
    /\ wakeups_sent = [s \in ShardSymbols |-> 0]
    /\ sent = <<>>
    /\ dropped = {}
    /\ senders_alive = TRUE
    /\ fabric_alive = TRUE
    /\ request = NoRequest

\* One to NumWorkers ingress workers are started.
InitPipe == StartPipe(Workers)

\* api::handle_order for the request of submitter p to /buy or /sell with
\* the body order.  The submitter holds a Sender of the ingress channel;
\* send fails when the channel has no Receiver left, which is when the
\* Fabric is gone.
handle_order_of(p, side, order) ==
    /\ senders_alive
    /\ Len(sent) < MaxEvents
    /\ IF ~is_valid_symbol(order.symbol) \/ order.price = 0
          \/ order.qty = 0
       THEN /\ producers' = [producers EXCEPT ![p].status = "400"]
            /\ UNCHANGED <<ingress, sent>>
       ELSE IF fabric_alive
       THEN LET event == new_order(side, order.price, order.qty,
                                   order.symbol,
                                   [producer |-> p,
                                    seq |-> producers[p].seq + 1])
            IN  /\ ingress' = send(ingress, event)
                /\ sent' = Append(sent, event)
                /\ producers' = [producers EXCEPT ![p] =
                                    [seq |-> @.seq + 1,
                                     status |-> "accepted"]]
       ELSE /\ producers' = [producers EXCEPT ![p].status = "500"]
            /\ UNCHANGED <<ingress, sent>>
    /\ UNCHANGED <<num_workers, capacity, senders_alive, fabric_alive>>
    /\ UNCHANGED <<workers, shard_queues, shard_wakeups,
                   shards, pushed, processed, dropped, wakeups_sent>>
    /\ UNCHANGED matcherVars
    /\ UNCHANGED rankVars

\* api::handle_order for any request of submitter p.
handle_order(p) ==
    /\ \E side \in PipeSides, order \in OrdersIn :
          handle_order_of(p, side, order)
    /\ UNCHANGED request

\* api::handle_order for any request of submitter p, which is put on
\* record.
handle_order_recorded(p) ==
    \E side \in PipeSides, order \in OrdersIn :
        /\ handle_order_of(p, side, order)
        /\ request' = [producer |-> p, side |-> side, order |-> order]

\* api::buy_handler: handle_order with Side::BUY.
buy_handler(p) ==
    /\ \E order \in OrdersIn : handle_order_of(p, "BUY", order)
    /\ UNCHANGED request

\* Fabric::run_ingress_worker: recv returns the oldest event.
WorkerRecv(w) ==
    /\ w <= num_workers
    /\ workers[w].pc = "recv"
    /\ ingress # <<>>
    /\ ingress' = recv(ingress).channel
    /\ workers' = [workers EXCEPT ![w] =
                      [pc |-> "route", event |-> recv(ingress).event]]
    /\ UNCHANGED <<num_workers, capacity, senders_alive, fabric_alive>>
    /\ UNCHANGED request
    /\ UNCHANGED <<producers, shard_queues, shard_wakeups,
                   shards, sent, pushed, processed, dropped, wakeups_sent>>
    /\ UNCHANGED matcherVars
    /\ UNCHANGED rankVars

\* shard_queues.get that answers an unknown symbol with the queue of some
\* shard.
get_or_any(map, symbol) ==
    IF symbol \in DOMAIN map THEN symbol ELSE CHOOSE s \in DOMAIN map : TRUE

\* HashMap::get on shard_queues and shard_wakeups: the key whose entry is
\* returned, or NoEntry for None.
get(map, symbol) == IF symbol \in DOMAIN map THEN symbol ELSE NoEntry

\* The worker sends no wakeup, whatever queue.push returned.
never_wakeup(ok) == "recv"

\* The worker sends a wakeup whatever queue.push returned.
always_wakeup(ok) == "wakeup"

\* What the worker does after queue.push returned: it sends the wakeup
\* after Ok and goes back to recv after Err.
after_push(ok) == IF ok THEN "wakeup" ELSE "recv"

\* route_event whose worker, finding the queue full, puts the order into
\* the shard's book itself instead of dropping the event.
RouteEventInline(w) ==
    /\ workers[w].pc = "route"
    /\ LET event == workers[w].event
           found == get(shard_queues, event.symbol)
       IN  IF found # NoEntry
           THEN LET r == push(shard_queues[found], event)
                IN  /\ shard_queues' =
                           [shard_queues EXCEPT ![found] = r.queue]
                    /\ pushed' = IF r.ok
                                 THEN [pushed EXCEPT ![found] =
                                          Append(@, event)]
                                 ELSE pushed
                    /\ shards' = IF r.ok THEN shards
                                 ELSE [shards EXCEPT ![found] =
                                          process_event(@, event)]
                    /\ workers' = [workers EXCEPT ![w] =
                                      IF r.ok
                                      THEN [pc |-> "wakeup", event |-> event]
                                      ELSE AtRecv]
                    /\ UNCHANGED dropped
           ELSE /\ dropped' = dropped \cup
                                 {[event |-> event, cause |-> "unknown"]}
                /\ workers' = [workers EXCEPT ![w] = AtRecv]
                /\ UNCHANGED <<shard_queues, pushed, shards>>
    /\ UNCHANGED <<num_workers, capacity, senders_alive, fabric_alive>>
    /\ UNCHANGED request
    /\ UNCHANGED <<producers, ingress, shard_wakeups,
                   sent, processed, wakeups_sent>>
    /\ UNCHANGED matcherVars
    /\ UNCHANGED rankVars

\* Fabric::route_event up to the return of queue.push.
RouteEvent(w) ==
    /\ workers[w].pc = "route"
    /\ LET event == workers[w].event
           symbol == event.symbol
           found == get(shard_queues, symbol)
       IN  IF found # NoEntry
           THEN LET r == push(shard_queues[found], event)
                    to == after_push(r.ok)
                IN  /\ shard_queues' =
                           [shard_queues EXCEPT ![found] = r.queue]
                    /\ pushed' = IF r.ok
                                 THEN [pushed EXCEPT ![found] =
                                          Append(@, event)]
                                 ELSE pushed
                    /\ dropped' = IF r.ok THEN dropped
                                  ELSE dropped \cup
                                       {[event |-> event, cause |-> "full"]}
                    /\ workers' = [workers EXCEPT ![w] =
                                      IF to = "wakeup"
                                      THEN [pc |-> "wakeup", event |-> event]
                                      ELSE AtRecv]
           ELSE /\ dropped' = dropped \cup
                                 {[event |-> event, cause |-> "unknown"]}
                /\ workers' = [workers EXCEPT ![w] = AtRecv]
                /\ UNCHANGED <<shard_queues, pushed>>
    /\ UNCHANGED <<num_workers, capacity, senders_alive, fabric_alive>>
    /\ UNCHANGED request
    /\ UNCHANGED <<producers, ingress, shard_wakeups, shards,
                   sent, processed, wakeups_sent>>
    /\ UNCHANGED matcherVars
    /\ UNCHANGED rankVars

\* Fabric::route_event after a successful push: wakeup_sender.send(()).
SendWakeup(w) ==
    /\ workers[w].pc = "wakeup"
    /\ LET found == get(shard_wakeups, workers[w].event.symbol)
       IN  IF found # NoEntry
           THEN /\ shard_wakeups' = [shard_wakeups EXCEPT ![found] = @ + 1]
                /\ wakeups_sent' = [wakeups_sent EXCEPT ![found] = @ + 1]
           ELSE UNCHANGED <<shard_wakeups, wakeups_sent>>
    /\ workers' = [workers EXCEPT ![w] = AtRecv]
    /\ UNCHANGED <<num_workers, capacity, senders_alive, fabric_alive>>
    /\ UNCHANGED request
    /\ UNCHANGED <<producers, ingress, shard_queues, shards,
                   sent, pushed, processed, dropped>>
    /\ UNCHANGED matcherVars
    /\ UNCHANGED rankVars

\* Shard::run: wakeup_receiver.recv() returns one unit.
ShardWake(s) ==
    /\ shards[s].pc = "wait"
    /\ shard_wakeups[s] > 0
    /\ shard_wakeups' = [shard_wakeups EXCEPT ![s] = @ - 1]
    /\ shards' = [shards EXCEPT ![s].pc = "drain"]
    /\ UNCHANGED <<num_workers, capacity, senders_alive, fabric_alive>>
    /\ UNCHANGED request
    /\ UNCHANGED <<producers, ingress, workers, shard_queues,
                   sent, pushed, processed, dropped, wakeups_sent>>
    /\ UNCHANGED matcherVars
    /\ UNCHANGED rankVars

\* Shard::run, one turn of the drain loop: input_queue.pop() and, for
\* Some(event), process_event; None ends the loop.
ShardPop(s) ==
    /\ shards[s].pc = "drain"
    /\ IF shard_queues[s] # <<>>
       THEN LET r == pop(shard_queues[s])
            IN  /\ shard_queues' = [shard_queues EXCEPT ![s] = r.queue]
                /\ shards' = [shards EXCEPT ![s] = process_event(@, r.event)]
                /\ processed' = [processed EXCEPT ![s] = Append(@, r.event)]
       ELSE /\ shards' = [shards EXCEPT ![s].pc = "wait"]
            /\ UNCHANGED <<shard_queues, processed>>
    /\ UNCHANGED <<num_workers, capacity, senders_alive, fabric_alive>>
    /\ UNCHANGED request
    /\ UNCHANGED <<producers, ingress, workers, shard_wakeups,
                   sent, pushed, dropped, wakeups_sent>>
    /\ UNCHANGED matcherVars
    /\ UNCHANGED rankVars

NextPipe ==
    \/ \E p \in Producers : handle_order(p)
    \/ \E w \in Workers : WorkerRecv(w) \/ RouteEvent(w) \/ SendWakeup(w)
    \/ \E s \in ShardSymbols : ShardWake(s) \/ ShardPop(s)

SpecPipe == InitPipe /\ [][NextPipe]_vars

(***************************************************************************)
(* Shutdown.  The submission port is shut down by dropping every Sender of *)
(* the ingress channel; the Fabric, which the ingress workers borrow while *)
(* they run, is dropped once no worker is inside run_ingress_worker, and   *)
(* its wakeup Senders go with it.  The submissions are the ones to /buy:   *)
(* the side of an event has no part in how the pipeline is shut down.      *)
(***************************************************************************)
\* The submission port is shut down: every AppState, and with it every
\* Sender of the ingress channel, is dropped.
DropSenders ==
    /\ senders_alive
    /\ senders_alive' = FALSE
    /\ UNCHANGED <<num_workers, capacity, fabric_alive, request>>
    /\ UNCHANGED <<producers, ingress, workers, shard_queues, shard_wakeups,
                   shards, sent, pushed, processed, dropped, wakeups_sent>>
    /\ UNCHANGED matcherVars
    /\ UNCHANGED rankVars

\* recv that fails as soon as no Sender is left, whatever is waiting.
recv_fails_without_senders(waiting, has_senders) == ~has_senders

\* recv that fails whenever nothing is waiting on the channel.
recv_fails_on_empty(waiting, has_senders) == waiting = 0

\* Receiver::recv returns Err instead of blocking: nothing is waiting on
\* the channel and no Sender is left to send anything.
recv_fails(waiting, has_senders) == waiting = 0 /\ ~has_senders

\* Fabric::run_ingress_worker: recv returns Err and the worker breaks out
\* of its loop.
WorkerExit(w) ==
    /\ w <= num_workers
    /\ workers[w].pc = "recv"
    /\ recv_fails(Len(ingress), senders_alive)
    /\ workers' = [workers EXCEPT ![w].pc = "done"]
    /\ UNCHANGED <<num_workers, capacity, senders_alive, fabric_alive>>
    /\ UNCHANGED request
    /\ UNCHANGED <<producers, ingress, shard_queues, shard_wakeups,
                   shards, sent, pushed, processed, dropped, wakeups_sent>>
    /\ UNCHANGED matcherVars
    /\ UNCHANGED rankVars

\* Every ingress worker that was started has returned.
WorkersReturned == \A w \in 1..num_workers : workers[w].pc = "done"

\* The Fabric is dropped, and with it the ingress Receiver and the wakeup
\* Senders.  run_ingress_worker borrows the Fabric, so this waits for the
\* workers to return.
DropFabric ==
    /\ fabric_alive
    /\ WorkersReturned
    /\ fabric_alive' = FALSE
    /\ UNCHANGED <<num_workers, capacity, senders_alive, request>>
    /\ UNCHANGED <<producers, ingress, workers, shard_queues, shard_wakeups,
                   shards, sent, pushed, processed, dropped, wakeups_sent>>
    /\ UNCHANGED matcherVars
    /\ UNCHANGED rankVars

\* Shard::run: wakeup_receiver.recv() returns Err and the shard breaks
\* out of its loop.
ShardExit(s) ==
    /\ shards[s].pc = "wait"
    /\ recv_fails(shard_wakeups[s], fabric_alive)
    /\ shards' = [shards EXCEPT ![s].pc = "done"]
    /\ UNCHANGED <<num_workers, capacity, senders_alive, fabric_alive>>
    /\ UNCHANGED request
    /\ UNCHANGED <<producers, ingress, workers, shard_queues, shard_wakeups,
                   sent, pushed, processed, dropped, wakeups_sent>>
    /\ UNCHANGED matcherVars
    /\ UNCHANGED rankVars

NextShut ==
    \/ \E p \in Producers : buy_handler(p)
    \/ \E w \in Workers : WorkerRecv(w) \/ RouteEvent(w) \/ SendWakeup(w)
    \/ \E s \in ShardSymbols : ShardWake(s) \/ ShardPop(s)
    \/ DropSenders
    \/ \E w \in Workers : WorkerExit(w)
    \/ DropFabric
    \/ \E s \in ShardSymbols : ShardExit(s)

SpecShut == InitPipe /\ [][NextShut]_vars

(***************************************************************************)
(* The submission port: its requests are put on record.  Behind it, no     *)
(* ingress worker or one is started on the fabric.  A fabric no worker     *)
(* runs on can be dropped at any time, and then the ingress channel has no *)
(* Receiver.  The queues have the capacity QueueCapacity.                  *)
(***************************************************************************)
InitPort == StartPipe(0..1) /\ capacity = QueueCapacity

NextPort ==
    \/ \E p \in Producers : handle_order_recorded(p)
    \/ \E w \in Workers : WorkerRecv(w) \/ RouteEvent(w) \/ SendWakeup(w)
    \/ DropFabric

SpecPort == InitPort /\ [][NextPort]_vars

(***************************************************************************)
(* Fair scheduling: the ingress workers and the shards are OS threads, and *)
(* a thread that can take a step takes one.  Nothing makes a submitter     *)
(* submit or the supervisor shut anything down.  The pipeline is followed  *)
(* from its start to its shutdown with the submissions of one submitter:   *)
(* which submitter sent an event has no part in waking or ending a thread. *)
(***************************************************************************)
WorkerStep(w) ==
    WorkerRecv(w) \/ RouteEvent(w) \/ SendWakeup(w) \/ WorkerExit(w)

ShardStep(s) == ShardWake(s) \/ ShardPop(s) \/ ShardExit(s)

Fairness ==
    /\ \A w \in Workers : WF_vars(WorkerStep(w))
    /\ \A s \in ShardSymbols : WF_vars(ShardStep(s))

NextLive ==
    \/ buy_handler(1)
    \/ \E w \in Workers : WorkerRecv(w) \/ RouteEvent(w) \/ SendWakeup(w)
    \/ \E s \in ShardSymbols : ShardWake(s) \/ ShardPop(s)
    \/ DropSenders
    \/ \E w \in Workers : WorkerExit(w)
    \/ DropFabric
    \/ \E s \in ShardSymbols : ShardExit(s)

SpecLive == InitPipe /\ [][NextLive]_vars /\ Fairness

(***************************************************************************)
(* C24: the shard worker matches what it dequeues.  After a shard has      *)
(* processed a sequence of events, its book equals the book obtained by    *)
(* calling the matching book's match_order on the same orders in the same  *)
(* order; in particular, after a SELL and then a BUY with buy price >=     *)
(* sell price, the two orders do not both rest at their full quantity.     *)
(* The books are compared as multisets of (price, quantity), against each  *)
(* of the three matchers.                                                  *)
(***************************************************************************)
\* The engine order an event stands for, numbered by its position.
AsOrder(event, k) ==
    Order(k, IF event.side = "BUY" THEN "Buy" ELSE "Sell", event.price,
          event.qty)

MatchWith(a, incoming, b, k, rk) ==
    CASE a = "fifo" -> fifo_match_order(incoming, b, k, rk)
      [] a = "prorata" -> pro_rata_match_order(incoming, b, k, rk, FALSE)
      [] a = "hybrid" ->
           hybrid_match_order(incoming, b, k, rk, DefaultPct, FALSE)

\* The book matcher a holds after match_order on events[1..n], from empty.
RECURSIVE MatchedBook(_, _, _)
MatchedBook(a, events, n) ==
    IF n = 0 THEN Outcome(<<>>, <<>>, <<>>, InitialRank, "ok")
    ELSE LET before == MatchedBook(a, events, n - 1)
         IN  MatchWith(a, AsOrder(events[n], n), before.bids, before.asks,
                       before.rank)

PriceQty(book) ==
    [i \in 1..Len(book) |-> <<book[i].price, book[i].quantity>>]
HeapPriceQty(heap) ==
    [i \in 1..Len(heap) |-> <<heap[i].price, heap[i].qty>>]

Count(seq, x) == Cardinality({i \in 1..Len(seq) : seq[i] = x})
SameBag(s1, s2) ==
    /\ Len(s1) = Len(s2)
    /\ \A i \in 1..Len(s1) : Count(s1, s1[i]) = Count(s2, s1[i])

ShardMatches(s, a) ==
    LET book == MatchedBook(a, processed[s], Len(processed[s]))
    IN  /\ SameBag(HeapPriceQty(shards[s].buy_orderbook),
                   PriceQty(book.bids))
        /\ SameBag(HeapPriceQty(shards[s].sell_orderbook),
                   PriceQty(book.asks))

CrossedPair(s) ==
    /\ Len(processed[s]) = 2
    /\ processed[s][1].side = "SELL"
    /\ processed[s][2].side = "BUY"
    /\ processed[s][2].price >= processed[s][1].price

C24_ShardMatchesWhatItDequeues ==
    \A s \in DOMAIN shards :
        /\ \E a \in Algos : ShardMatches(s, a)
        /\ CrossedPair(s) =>
              ~(/\ \E i \in 1..Len(shards[s].sell_orderbook) :
                      shards[s].sell_orderbook[i].qty = processed[s][1].qty
                /\ \E i \in 1..Len(shards[s].buy_orderbook) :
                      shards[s].buy_orderbook[i].qty = processed[s][2].qty)

(***************************************************************************)
(* Reading the pipeline.                                                   *)
(***************************************************************************)
SentEvents == {sent[i] : i \in 1..Len(sent)}

\* How often shard s processed the event.
TimesProcessedBy(s, event) == Count(processed[s], event)
ProcessedElsewhere(event) ==
    \E s \in DOMAIN shards :
        s # event.symbol /\ TimesProcessedBy(s, event) > 0

Dropped(event) == \E d \in dropped : d.event = event
DroppedFor(event, cause) == [event |-> event, cause |-> cause] \in dropped

\* Nothing is in flight: every event sent has been routed and every shard
\* has drained its queue and waits for a wakeup.
Quiescent ==
    /\ ingress = <<>>
    /\ \A w \in Workers : workers[w].pc = "recv"
    /\ \A s \in DOMAIN shards :
          /\ shard_queues[s] = <<>>
          /\ shard_wakeups[s] = 0
          /\ shards[s].pc = "wait"

(***************************************************************************)
(* C25 as claimed: exactly-once delivery.  Every event sent onto the       *)
(* ingress channel for a symbol that has a shard is processed exactly once *)
(* by that shard and by no other, for any number of producers and ingress  *)
(* workers and any bounded queue capacity: once nothing is in flight, each *)
(* such event has been processed once.                                     *)
(***************************************************************************)
C25_ExactlyOnceAsClaimed ==
    \A e \in SentEvents :
        e.symbol \in DOMAIN shards =>
            /\ TimesProcessedBy(e.symbol, e) <= 1
            /\ ~ProcessedElsewhere(e)
            /\ Quiescent => TimesProcessedBy(e.symbol, e) = 1

(***************************************************************************)
(* C25 as amended: at-most-once delivery, exactly once unless dropped.     *)
(* Every event sent onto the ingress channel is processed at most once,    *)
(* only by the shard owning its symbol, and never if the router dropped    *)
(* it (queue full at its push, or no shard for its symbol); once nothing   *)
(* is in flight, every event that was not dropped has been processed       *)
(* exactly once.  Only events that were sent are processed.                *)
(***************************************************************************)
C25_AtMostOnceDelivery ==
    /\ \A e \in SentEvents :
          /\ ~ProcessedElsewhere(e)
          /\ e.symbol \in DOMAIN shards =>
                /\ TimesProcessedBy(e.symbol, e) <= 1
                /\ Dropped(e) => TimesProcessedBy(e.symbol, e) = 0
                /\ (Quiescent /\ ~Dropped(e)) =>
                      TimesProcessedBy(e.symbol, e) = 1
          /\ e.symbol \notin DOMAIN shards => (Quiescent => Dropped(e))
    /\ \A s \in DOMAIN shards : \A i \in 1..Len(processed[s]) :
          processed[s][i] \in SentEvents

\* Three events for one symbol were sent by two producers and nothing is
\* in flight: the shard processed two and one was dropped on a full queue.
C25_Witness ==
    /\ Quiescent
    /\ Len(sent) = 3
    /\ \A p \in Producers : producers[p].seq > 0
    /\ \E d \in dropped :
          /\ d.cause = "full"
          /\ Len(processed[d.event.symbol]) = 2

(***************************************************************************)
(* C26: within a single shard, events are processed strictly in the order  *)
(* in which they were successfully pushed onto the shard's bounded queue,  *)
(* under every interleaving of pushes by several ingress workers with pops *)
(* by the shard: the events pushed so far are the events processed, in     *)
(* the order processed, followed by the events still queued.               *)
(***************************************************************************)
C26_ShardProcessesInPushOrder ==
    \A s \in DOMAIN shards : pushed[s] = processed[s] \o shard_queues[s]

\* With two ingress workers running, a shard that took one wakeup has
\* processed two events of different submitters while a second wakeup is
\* still pending.
C26_Witness ==
    /\ num_workers = 2
    /\ \E s \in DOMAIN shards :
          /\ Len(processed[s]) = 2
          /\ processed[s][1].tag.producer # processed[s][2].tag.producer
          /\ wakeups_sent[s] = 2
          /\ shard_wakeups[s] = 1

\* Shard s processed the events of each submitter in the order the
\* submitter sent them.
KeepsSendOrder(s) ==
    \A i, j \in 1..Len(processed[s]) :
        (i < j /\ processed[s][i].tag.producer = processed[s][j].tag.producer)
            => processed[s][i].tag.seq < processed[s][j].tag.seq

(***************************************************************************)
(* C27 as claimed: per-producer FIFO ingestion per symbol.  If one         *)
(* producer sends e1 and later e2 for the same symbol and the shard        *)
(* processes both, it processes e1 before e2, for any number of ingress    *)
(* workers running the fabric loop concurrently.                           *)
(***************************************************************************)
C27_PerProducerFifoAsClaimed == \A s \in DOMAIN shards : KeepsSendOrder(s)

(***************************************************************************)
(* C27 as amended: per-producer FIFO ingestion per symbol with exactly one *)
(* ingress worker running the fabric loop: if one producer sends e1 and    *)
(* later e2 for the same symbol and the shard processes both, it processes *)
(* e1 before e2.                                                           *)
(***************************************************************************)
C27_PerProducerFifoOneWorker ==
    num_workers = 1 => \A s \in DOMAIN shards : KeepsSendOrder(s)

\* One ingress worker: a shard processed two events of one submitter with
\* an event of the other submitter between them.
C27_Witness ==
    /\ num_workers = 1
    /\ \E s \in DOMAIN shards :
          /\ Len(processed[s]) = 3
          /\ processed[s][1].tag.producer = processed[s][3].tag.producer
          /\ processed[s][1].tag.producer # processed[s][2].tag.producer

\* Worker w holds an event to route; a step that changes the worker from
\* there is its route_event up to the return of queue.push.
Routing(w) == workers[w].pc = "route"
RoutedBy(w) == Routing(w) /\ workers'[w] # workers[w]

\* The event is on the ingress channel, in a worker's hands or in a queue.
InFlight(event) ==
    \/ \E i \in 1..Len(ingress) : ingress[i] = event
    \/ \E w \in Workers : workers[w].pc # "recv" /\ workers[w].event = event
    \/ \E s \in DOMAIN shard_queues :
          \E i \in 1..Len(shard_queues[s]) : shard_queues[s][i] = event

EverProcessed(event) ==
    \E s \in DOMAIN shards : TimesProcessedBy(s, event) > 0

\* Worker w is about to push onto a queue that is at capacity.
FacesFullQueue(w) ==
    /\ Routing(w)
    /\ workers[w].event.symbol \in DOMAIN shard_queues
    /\ Len(shard_queues[workers[w].event.symbol]) = capacity

(***************************************************************************)
(* C28: overflow policy.  When an ingress worker routes an event whose     *)
(* shard queue is at capacity, the push fails and the event is dropped:    *)
(* the queue contents are unchanged, no wakeup is sent for it, the worker  *)
(* goes straight back to receiving the next ingress event, and the event   *)
(* is never processed, retried or re-queued afterwards.                    *)
(***************************************************************************)
C28_OverflowPolicy ==
    /\ [](\A d \in dropped :
             d.cause = "full" =>
                 ~InFlight(d.event) /\ ~EverProcessed(d.event))
    /\ [][\A w \in Workers :
             (FacesFullQueue(w) /\ RoutedBy(w)) =>
                 /\ [event |-> workers[w].event, cause |-> "full"]
                        \in dropped'
                 /\ workers'[w] = AtRecv
                 /\ UNCHANGED <<shard_queues, shard_wakeups, wakeups_sent,
                                pushed, processed, shards>>]_vars

\* An event was dropped on a full queue of capacity 1 whose one event is
\* still waiting, and the worker that dropped it has received the next
\* event and holds it for routing.
C28_Witness ==
    /\ num_workers = 1
    /\ capacity = 1
    /\ workers[1].pc = "route"
    /\ \E d \in dropped :
          /\ d.cause = "full"
          /\ Len(shard_queues[d.event.symbol]) = capacity
          /\ processed[d.event.symbol] = <<>>

\* Worker w is about to route an event whose symbol has no shard queue.
FacesUnknownSymbol(w) ==
    /\ Routing(w)
    /\ workers[w].event.symbol \notin DOMAIN shard_queues

(***************************************************************************)
(* C29: unknown-symbol routing.  An event whose symbol is not a key of the *)
(* fabric's shard-queue map is dropped by the router: no shard queue       *)
(* changes, no wakeup is sent to any shard and the worker keeps running;   *)
(* an event is only ever pushed onto the queue registered under exactly    *)
(* its own symbol.                                                         *)
(***************************************************************************)
C29_UnknownSymbolRouting ==
    /\ [](/\ \A s \in DOMAIN shard_queues :
                /\ \A i \in 1..Len(shard_queues[s]) :
                      shard_queues[s][i].symbol = s
                /\ \A i \in 1..Len(pushed[s]) : pushed[s][i].symbol = s
          /\ \A d \in dropped :
                d.cause = "unknown" =>
                    /\ d.event.symbol \notin DOMAIN shard_queues
                    /\ ~InFlight(d.event)
                    /\ ~EverProcessed(d.event))
    /\ [][\A w \in Workers :
             (FacesUnknownSymbol(w) /\ RoutedBy(w)) =>
                 /\ [event |-> workers[w].event, cause |-> "unknown"]
                        \in dropped'
                 /\ workers'[w] = AtRecv
                 /\ UNCHANGED <<shard_queues, shard_wakeups, wakeups_sent,
                                pushed, processed, shards>>]_vars

\* The one ingress worker dropped the first event sent, whose symbol the
\* submission port accepts and no shard owns, and then routed a later
\* event, which its shard has processed.
C29_Witness ==
    /\ num_workers = 1
    /\ Len(sent) >= 2
    /\ is_valid_symbol(sent[1].symbol)
    /\ DroppedFor(sent[1], "unknown")
    /\ EverProcessed(sent[2])

\* The workers between a successful push for shard s and its wakeup send.
SendInFlight(s) ==
    {w \in Workers : workers[w].pc = "wakeup" /\ workers[w].event.symbol = s}

WasPushed(s, event) == \E i \in 1..Len(pushed[s]) : pushed[s][i] = event

(***************************************************************************)
(* C30: wakeup accounting.  Every successful push onto a shard's queue is  *)
(* followed by exactly one wakeup send to that same shard, issued after    *)
(* the push, and a failed push or an unknown-symbol drop sends none: at    *)
(* every moment the number of wakeups sent to a shard is <= the number of  *)
(* successful pushes to its queue and differs from it exactly by the       *)
(* pushes whose send is still in flight, and every wakeup send is one      *)
(* unit, sent by a worker for an event it has pushed onto that queue.      *)
(***************************************************************************)
C30_WakeupAccounting ==
    /\ [](\A s \in DOMAIN shards :
             /\ wakeups_sent[s] <= Len(pushed[s])
             /\ Len(pushed[s]) - wakeups_sent[s]
                    = Cardinality(SendInFlight(s))
             /\ shard_wakeups[s] <= wakeups_sent[s]
             /\ \A w \in SendInFlight(s) : WasPushed(s, workers[w].event))
    /\ [][\A s \in DOMAIN shards :
             wakeups_sent'[s] # wakeups_sent[s] =>
                 /\ wakeups_sent'[s] = wakeups_sent[s] + 1
                 /\ shard_wakeups'[s] = shard_wakeups[s] + 1
                 /\ \E w \in SendInFlight(s) :
                       /\ workers'[w] = AtRecv
                       /\ \A v \in Workers \ {w} : workers'[v] = workers[v]
          ]_vars

\* Two pushes onto a shard's queue succeeded and a third failed; one
\* wakeup has been sent and the second is in flight.
C30_Witness ==
    \E s \in DOMAIN shards :
        /\ Len(pushed[s]) = 2
        /\ wakeups_sent[s] = 1
        /\ Cardinality(SendInFlight(s)) = 1
        /\ \E d \in dropped : d.cause = "full" /\ d.event.symbol = s

(***************************************************************************)
(* C36: HybridMatcher with fifo_percentage = 0 is observationally equal to *)
(* ProRataMatcher.  Both start from an empty book, so it is enough that    *)
(* every call of the Hybrid matcher ends as the same call of the ProRata   *)
(* matcher ends on the same queues, in the same build: the same            *)
(* (buy_id, sell_id, price, quantity) entries in the same order, the same  *)
(* bids and asks afterwards.  Then the two matchers hold the same queues   *)
(* before the next call as well.                                           *)
(***************************************************************************)
TradeEntries(trades) ==
    [k \in 1..Len(trades) |->
        <<trades[k].buy_id, trades[k].sell_id, trades[k].price,
          trades[k].quantity>>]

\* The ways ProRataMatcher::match_order ends on the latest call's order
\* and the queues before it.
ProRataOnSame ==
    Builds(pro_rata_match_order(last.order, last.pre_bids, last.pre_asks,
                                last.pre_rank, FALSE),
           pro_rata_match_order(last.order, last.pre_bids, last.pre_asks,
                                last.pre_rank, TRUE))

SameObservation(out) ==
    /\ out.result = last.result
    /\ TradeEntries(out.trades) = TradeEntries(last.trades)
    /\ out.bids = bids
    /\ out.asks = asks

ZeroFifoHybrid == algo = "hybrid" /\ fifo_percentage.num = 0

C36_HybridZeroIsProRata ==
    (ZeroFifoHybrid /\ Called) =>
        \E out \in ProRataOnSame : SameObservation(out)

\* The Hybrid matcher with fifo_percentage = 0 traded against two resting
\* orders and rested what was left of the aggressor.
C36_Witness ==
    /\ ZeroFifoHybrid
    /\ Returned
    /\ Len(last.trades) >= 2
    /\ Resting(PostOwn, last.order.id)

(***************************************************************************)
(* A HybridMatcher made by new_with_config with a fifo_percentage outside  *)
(* [0, 1], receiving valid and invalid orders.                             *)
(***************************************************************************)
OutOfRangePcts == {[num |-> -1, den |-> 2], [num |-> 3, den |-> 2]}

InitConfig ==
    /\ algo = "hybrid"
    /\ fifo_percentage \in OutOfRangePcts
    /\ InitBook
    /\ NoStudy
    /\ NoCreators
    /\ NoPipe

NextConfig == SubmitHybrid \/ SubmitInvalid
SpecConfig == InitConfig /\ [][NextConfig]_vars

(***************************************************************************)
(* C39: a HybridMatcher whose fifo_percentage is below 0 or above 1        *)
(* rejects every submission silently: match_order returns an empty trade   *)
(* list, the order is neither matched nor rested, and bids, asks and the   *)
(* rank counter never change, whatever the submission sequence.            *)
(***************************************************************************)
OutOfRange(pct) == pct.num < 0 \/ pct.num > pct.den

C39_OutOfRangeConfigRejects ==
    (algo = "hybrid" /\ OutOfRange(fifo_percentage)) =>
        /\ bids = <<>>
        /\ asks = <<>>
        /\ rank = InitialRank
        /\ Called => (last.result = "invalid" /\ NoEffect)

\* The third or a later submission, a valid order, was turned away by a
\* matcher configured above 1.
C39_Witness ==
    /\ algo = "hybrid"
    /\ fifo_percentage.num > fifo_percentage.den
    /\ last.result = "invalid"
    /\ last.order.quantity > 0
    /\ last.order.price > 0
    /\ last.order.id >= 3

(***************************************************************************)
(* C38: queue structure of every matcher.  In every reachable state bids   *)
(* is a subsequence, in arrival order, of the Buy orders submitted so far  *)
(* and asks of the Sell orders, each with a quantity <= its submitted      *)
(* quantity.  Ids are given in arrival order and a call changes a queue    *)
(* only once, so this is: ids increase along each queue, every order is    *)
(* on its side, and every resting order is the latest order or an order    *)
(* of the queue before the latest call, at its price and with no more      *)
(* than its quantity then.                                                 *)
(***************************************************************************)
\* a <= b for two u64, where a value below zero stands for 2^64 + value.
LeqU64(a, b) == IF a < 0 THEN b < 0 /\ a <= b ELSE b < 0 \/ a <= b

IdsIncrease(book) ==
    \A i, j \in 1..Len(book) : i < j => book[i].id < book[j].id

\* The order o rests as the order it was submitted as or rested as.
Survives(o, before) ==
    \/ /\ o.id = last.order.id
       /\ o.side = last.order.side
       /\ o.price = last.order.price
       /\ LeqU64(o.quantity, last.order.quantity)
    \/ \E i \in 1..Len(before) :
          /\ o.id = before[i].id
          /\ o.side = before[i].side
          /\ o.price = before[i].price
          /\ LeqU64(o.quantity, before[i].quantity)

C38_QueueStructure ==
    /\ IdsIncrease(bids)
    /\ IdsIncrease(asks)
    /\ \A i \in 1..Len(bids) :
           bids[i].side = "Buy" /\ Survives(bids[i], last.pre_bids)
    /\ \A i \in 1..Len(asks) :
           asks[i].side = "Sell" /\ Survives(asks[i], last.pre_asks)

(***************************************************************************)
(* C35: with exactly one ingress worker and any number of producers, a     *)
(* shard processes the events of its symbol in the order the worker        *)
(* received them from the ingress channel.  The events the worker has      *)
(* routed are a prefix of the ingress order; of these, the ones for the    *)
(* shard's symbol that were not dropped on a full queue are, in that       *)
(* order, the events the shard has processed followed by the events still  *)
(* in its queue.  So the processed events are a subsequence of the ingress *)
(* order restricted to the symbol.                                         *)
(***************************************************************************)
\* The events the only worker has routed, in the order it received them.
RoutedPrefix ==
    SubSeq(sent, 1, Len(sent) - Len(ingress)
                    - (IF workers[1].pc = "route" THEN 1 ELSE 0))

\* The events of seq for symbol s that were not dropped on a full queue.
KeptFor(s, seq) ==
    LET Kept(e) == e.symbol = s /\ ~DroppedFor(e, "full")
    IN  SelectSeq(seq, Kept)

C35_OneWorkerIngressOrder ==
    num_workers = 1 =>
        \A s \in DOMAIN shards :
            processed[s] \o shard_queues[s] = KeptFor(s, RoutedPrefix)

\* One ingress worker: a shard processed an event of each submitter, in
\* ingress order, and an event sent between the two was dropped on the
\* full queue.
C35_Witness ==
    /\ num_workers = 1
    /\ Len(sent) = 3
    /\ \E s \in DOMAIN shards :
          /\ Len(processed[s]) = 2
          /\ processed[s][1].tag.producer # processed[s][2].tag.producer
          /\ processed[s][1] = sent[1]
          /\ processed[s][2] = sent[3]
          /\ DroppedFor(sent[2], "full")
          /\ sent[2].symbol = s

(***************************************************************************)
(* C31: no lost wakeup.  Under fair scheduling of ingress workers and      *)
(* shards, every event pushed onto a shard's queue is eventually popped    *)
(* and processed by that shard.  The state "queue non-empty, shard blocked *)
(* on the wakeup receive, no wakeup pending in the channel, no router      *)
(* between its push and its wakeup send" is unreachable.  A wakeup         *)
(* received when the queue is already empty changes nothing: the shard     *)
(* goes back to the wakeup receive with its books as they were.            *)
(***************************************************************************)
\* A worker has pushed onto the queue of s and not yet sent the wakeup.
WakeupOwed(s) ==
    \E w \in Workers :
        workers[w].pc = "wakeup" /\ workers[w].event.symbol = s

LostWakeup(s) ==
    /\ shard_queues[s] # <<>>
    /\ shards[s].pc = "wait"
    /\ shard_wakeups[s] = 0
    /\ ~WakeupOwed(s)

\* The shard s, woken, finds its queue empty.
SpuriousWakeup(s) ==
    /\ shards[s].pc = "drain"
    /\ shard_queues[s] = <<>>
    /\ shards'[s] # shards[s]

C31_NoLostWakeup ==
    /\ [](\A s \in ShardSymbols : ~LostWakeup(s))
    /\ [][\A s \in ShardSymbols :
             SpuriousWakeup(s) =>
                 /\ shards'[s] = [shards[s] EXCEPT !.pc = "wait"]
                 /\ processed' = processed
                 /\ shard_queues' = shard_queues
                 /\ shard_wakeups' = shard_wakeups]_vars
    /\ \A s \in ShardSymbols, k \in 1..MaxEvents :
           Len(pushed[s]) >= k ~> Len(processed[s]) >= k

\* Two workers: one has pushed an event onto the queue of a shard and owes
\* the wakeup, while the shard, woken for an earlier event that it has
\* processed, is in its drain loop; a wakeup is pending as well.
C31_Witness ==
    \E s \in ShardSymbols :
        /\ shards[s].pc = "drain"
        /\ Len(processed[s]) >= 1
        /\ shard_queues[s] # <<>>
        /\ WakeupOwed(s)
        /\ shard_wakeups[s] >= 1

(***************************************************************************)
(* C32: termination.  Once the ingress channel is closed (all senders      *)
(* dropped), every ingress worker eventually leaves its loop and returns;  *)
(* once the wakeup channel of a shard is closed (all senders dropped),     *)
(* that shard eventually leaves its loop and returns; neither loop         *)
(* terminates while its channel is still open.                             *)
(***************************************************************************)
ShardsReturned == \A s \in ShardSymbols : shards[s].pc = "done"

C32_Termination ==
    /\ [](\A w \in Workers : workers[w].pc = "done" => ~senders_alive)
    /\ [](\A s \in ShardSymbols : shards[s].pc = "done" => ~fabric_alive)
    /\ ~senders_alive ~> WorkersReturned
    /\ ~fabric_alive ~> ShardsReturned

\* Two workers and both shards have returned after the pipeline carried
\* MaxEvents events.
C32_Witness ==
    /\ num_workers = NumWorkers
    /\ WorkersReturned
    /\ ShardsReturned
    /\ Len(sent) = MaxEvents

(***************************************************************************)
(* C37: graceful drain on shutdown.  The ingress channel is closed after   *)
(* some events were sent, and the wakeup senders of the fabric are dropped *)
(* only after all ingress workers have returned.  Then every event sent    *)
(* before the close is routed, pushed or dropped by policy, before the     *)
(* workers exit, and every event pushed is processed before its shard      *)
(* exits: at shard termination its input queue is empty.                   *)
(***************************************************************************)
\* The event went through route_event to its end.
Routed(event) ==
    \/ Dropped(event)
    \/ /\ event.symbol \in DOMAIN pushed
       /\ \E i \in 1..Len(pushed[event.symbol]) :
              pushed[event.symbol][i] = event
       /\ \A w \in Workers :
              ~(workers[w].pc = "wakeup" /\ workers[w].event = event)

C37_GracefulDrain ==
    /\ \A w \in Workers :
           workers[w].pc = "done" => ingress = <<>> /\ ~senders_alive
    /\ (num_workers > 0 /\ WorkersReturned) =>
           \A i \in 1..Len(sent) : Routed(sent[i])
    /\ ~fabric_alive => WorkersReturned
    /\ \A s \in ShardSymbols :
           shards[s].pc = "done" =>
               /\ shard_queues[s] = <<>>
               /\ shard_wakeups[s] = 0
               /\ processed[s] = pushed[s]

\* Every worker and every shard has returned; one shard processed two
\* events or more, and an event was dropped by policy.
C37_Witness ==
    /\ WorkersReturned
    /\ \A s \in ShardSymbols : shards[s].pc = "done"
    /\ \E s \in ShardSymbols : Len(processed[s]) >= 2
    /\ dropped # {}

(***************************************************************************)
(* C34: submission port validation.  A submission whose symbol is not in   *)
(* the fixed whitelist, or whose price is 0, or whose quantity is 0, is    *)
(* rejected (400) and puts nothing on the ingress channel.  A valid        *)
(* submission puts exactly one event carrying the same side, price,        *)
(* quantity and symbol on the ingress channel and is acknowledged as       *)
(* accepted without waiting for routing or matching.  If the ingress send  *)
(* fails, the submission is answered with an internal error (500).         *)
(***************************************************************************)
Whitelist == {"Pranesh", "Superman", "Arnimzola"}

Rejectable(order) ==
    order.symbol \notin Whitelist \/ order.price = 0 \/ order.qty = 0

\* The step is a submission: it is put on record or answered.
Submission == request' # request \/ producers' # producers

Answer == producers'[request'.producer].status

Carries(event, side, order) ==
    /\ event.side = side
    /\ event.price = order.price
    /\ event.qty = order.qty
    /\ event.symbol = order.symbol

C34_SubmissionPort ==
    [][Submission =>
          /\ IF Rejectable(request'.order)
             THEN Answer = "400" /\ ingress' = ingress
             ELSE IF fabric_alive
             THEN /\ Answer = "accepted"
                  /\ Len(ingress') = Len(ingress) + 1
                  /\ SubSeq(ingress', 1, Len(ingress)) = ingress
                  /\ Carries(ingress'[Len(ingress')], request'.side,
                             request'.order)
             ELSE Answer = "500" /\ ingress' = ingress
          /\ workers' = workers
          /\ shard_queues' = shard_queues
          /\ shards' = shards]_vars

\* A valid submission was answered with 500 after the fabric was dropped,
\* an earlier one was accepted and its event waits on the channel, and the
\* other submitter has been rejected.
C34_Witness ==
    /\ ~Rejectable(request.order)
    /\ request.producer # 0
    /\ producers[request.producer].status = "500"
    /\ ingress # <<>>
    /\ \E p \in Producers : producers[p].status = "400"

(***************************************************************************)
(* C33: per-shard serialisation.  A symbol's book is read and modified by  *)
(* exactly one thread, its shard: every step that changes the book of a    *)
(* symbol is a turn of that shard's drain loop, which takes one event from *)
(* the queue and processes it before anything else happens to the book, so *)
(* no two events for one symbol are processed at the same time.  Ingress   *)
(* workers never touch a book: a step of a worker changes its own place in *)
(* the loop, a queue or a wakeup channel, and leaves every shard as it     *)
(* was.  The book holds one order for each event processed.                *)
(***************************************************************************)
Books(shard) == <<shard.buy_orderbook, shard.sell_orderbook>>

BookSize(shard) == Len(shard.buy_orderbook) + Len(shard.sell_orderbook)

C33_PerShardSerialisation ==
    /\ [](\A s \in ShardSymbols : BookSize(shards[s]) = Len(processed[s]))
    /\ [][/\ \A s \in ShardSymbols :
                Books(shards[s])' # Books(shards[s]) =>
                    /\ shards[s].pc = "drain"
                    /\ shard_queues[s] # <<>>
                    /\ shards'[s] =
                           process_event(shards[s], Head(shard_queues[s]))
                    /\ processed'[s] =
                           Append(processed[s], Head(shard_queues[s]))
                    /\ workers' = workers
                    /\ \A t \in ShardSymbols \ {s} : shards'[t] = shards[t]
          /\ workers' # workers =>
                 shards' = shards /\ processed' = processed]_vars

\* A shard is in its drain loop with an event processed and one queued,
\* while a worker is about to push another event for the same symbol.
C33_Witness ==
    \E s \in ShardSymbols :
        /\ shards[s].pc = "drain"
        /\ Len(processed[s]) >= 1
        /\ shard_queues[s] # <<>>
        /\ \E w \in Workers :
               workers[w].pc = "route" /\ workers[w].event.symbol = s

=============================================================================
